---------------------------- MODULE Spec2Model ----------------------------
(***************************************************************************)
(* A model of the e-ink reader: the paginator and page cursor of           *)
(* core/book_manager.py, the screens of ui/screens.py and the controller   *)
(* (EinkReader) of main.py.                                                *)
(*                                                                         *)
(* Strings are sequences of one-character strings, so that len(), strip(), *)
(* re.split() and str.join() are computed the way Python computes them.    *)
(***************************************************************************)
EXTENDS Integers, Sequences, FiniteSets, TLC

\* ------------------------------------------------------------------ bounds
\* Longest text given to split_into_pages in SpecPaginate.
MaxTextLen == 7
\* Budgets (chars_per_page) given to split_into_pages in SpecPaginate: 1..MaxBudget.
MaxBudget == 3
\* The budget load_book paginates with: the default chars_per_page of
\* split_into_pages (1500 in the source), scaled down to the model's book texts.
ModelCharsPerPage == 2
\* Page numbers given to go_to_page: -1..MaxPageArg.
MaxPageArg == 3

\* ----------------------------------------------------------------- strings
NL == "\n"
SP == " "
\* The characters texts are made of: two letters, the blank and the newline.
Chars == {"a", "b", SP, NL}

\* Python's str.isspace() on the model's characters (what \s and strip() match).
IsSpace(c) == c \in {SP, NL}

SeqsUpTo(S, n) == UNION {[1..k -> S] : k \in 0..n}

SetMax(S) == CHOOSE m \in S : \A x \in S : x <= m

\* F(x) with x evaluated once: a statement's result bound to a local before
\* the statements that follow use it.
Let(x, F(_)) == CHOOSE y \in {F(v) : v \in {x}} : TRUE

\* s.strip(): s without its leading and trailing whitespace.
strip(s) ==
    LET keep == {i \in 1..Len(s) : ~IsSpace(s[i])}
    IN  IF keep = {} THEN <<>>
        ELSE SubSeq(s, CHOOSE i \in keep : \A j \in keep : i <= j, SetMax(keep))

\* sep.join(parts)
RECURSIVE join(_, _)
join(sep, parts) ==
    IF Len(parts) = 0 THEN <<>>
    ELSE IF Len(parts) = 1 THEN parts[1]
    ELSE parts[1] \o sep \o join(sep, Tail(parts))

\* The end of the match of \n\s*\n that starts at position i of t (t[i] is a
\* newline), 0 if there is none: \s* is greedy, so the match ends at the last
\* newline of the whitespace run that follows i.
SepEnd(t, i) ==
    LET ends == {j \in (i+1)..Len(t) :
                    t[j] = NL /\ \A k \in (i+1)..(j-1) : IsSpace(t[k])}
    IN  IF ends = {} THEN 0 ELSE SetMax(ends)

\* re.split(r'\n\s*\n', t), scanning from position i with the current piece
\* starting at position start: leftmost match first, then on from its end.
RECURSIVE SplitFrom(_, _, _)
SplitFrom(t, start, i) ==
    IF i > Len(t) THEN << SubSeq(t, start, Len(t)) >>
    ELSE IF t[i] = NL /\ SepEnd(t, i) # 0
         THEN << SubSeq(t, start, i - 1) >>
              \o SplitFrom(t, SepEnd(t, i) + 1, SepEnd(t, i) + 1)
         ELSE SplitFrom(t, start, i + 1)

re_split(t) == SplitFrom(t, 1, 1)

\* ---------------------------------------------------------------- paginator
\* The page returned for an empty text: the three characters of the source's
\* placeholder (U+7A7A U+5185 U+5BB9), each written as its pinyin.
Placeholder == << "kong", "nei", "rong" >>

\* PageStep with a paragraph that fills the budget exactly sent to a new page.
PageStep_StrictBudget(st, para, chars_per_page) ==
    LET p == strip(para)
        para_chars == Len(p)
    IN  IF p = <<>> THEN st
        ELSE IF st.current_chars + para_chars < chars_per_page
                \/ st.current_page = <<>>
        THEN [st EXCEPT !.current_page = Append(@, p),
                        !.current_chars = @ + para_chars]
        ELSE [pages |-> Append(st.pages, st.current_page),
              current_page |-> << p >>,
              current_chars |-> para_chars]

\* PageStep with the character count of a new page not restarted.
PageStep_StaleCount(st, para, chars_per_page) ==
    LET p == strip(para)
        para_chars == Len(p)
    IN  IF p = <<>> THEN st
        ELSE IF st.current_chars + para_chars <= chars_per_page
                \/ st.current_page = <<>>
        THEN [st EXCEPT !.current_page = Append(@, p),
                        !.current_chars = @ + para_chars]
        ELSE [pages |-> Append(st.pages, st.current_page),
              current_page |-> << p >>,
              current_chars |-> 0]

\* PageStep with the paragraph that closes a page lost.
PageStep_DropsParagraph(st, para, chars_per_page) ==
    LET p == strip(para)
        para_chars == Len(p)
    IN  IF p = <<>> THEN st
        ELSE IF st.current_chars + para_chars <= chars_per_page
                \/ st.current_page = <<>>
        THEN [st EXCEPT !.current_page = Append(@, p),
                        !.current_chars = @ + para_chars]
        ELSE [pages |-> Append(st.pages, st.current_page),
              current_page |-> << >>,
              current_chars |-> 0]

\* One turn of the loop of split_into_pages over the paragraph para, on the
\* loop's locals st = [pages, current_page, current_chars]; pages holds the
\* closed pages as lists of paragraphs (they are joined on return).
PageStep(st, para, chars_per_page) ==
    LET p == strip(para)
        para_chars == Len(p)
    IN  IF p = <<>> THEN st
        ELSE IF st.current_chars + para_chars <= chars_per_page
                \/ st.current_page = <<>>
        THEN [st EXCEPT !.current_page = Append(@, p),
                        !.current_chars = @ + para_chars]
        ELSE [pages |-> Append(st.pages, st.current_page),
              current_page |-> << p >>,
              current_chars |-> para_chars]

RECURSIVE PageLoop(_, _, _)
PageLoop(st, paragraphs, chars_per_page) ==
    IF paragraphs = <<>> THEN st
    ELSE Let(PageStep(st, Head(paragraphs), chars_per_page),
             LAMBDA st2 : PageLoop(st2, Tail(paragraphs), chars_per_page))

\* The paragraph lists of the pages split_into_pages returns for a non-empty
\* text: the closed pages, then the last page if it holds anything.
PageParagraphs(text, chars_per_page) ==
    Let(PageLoop([pages |-> <<>>, current_page |-> <<>>, current_chars |-> 0],
                 re_split(text), chars_per_page),
        LAMBDA st : IF st.current_page # <<>> THEN Append(st.pages, st.current_page)
                    ELSE st.pages)

\* BookManager.split_into_pages(text, chars_per_page)
split_into_pages(text, chars_per_page) ==
    IF text = <<>> THEN << Placeholder >>
    ELSE Let(PageParagraphs(text, chars_per_page),
             LAMBDA g : [i \in 1..Len(g) |-> join(<<NL>>, g[i])])

\* ------------------------------------------------------------- the books
None == "None"

\* The files of the books directory the model knows, with the text their
\* loader returns; "gone.txt" names no file.
BookText ==
    [ a_txt     |-> << "a", "a", NL, NL, "b", "b", NL, NL, "a", "b" >>,
      b_txt     |-> << "a", "b", NL, NL, "b", "a" >>,
      blank_txt |-> << SP, NL >>,
      d_doc     |-> << "a", "a" >> ]

ExistingBooks == DOMAIN BookText
Paths == ExistingBooks \cup {"gone_txt"}

\* book_path.suffix.lower()
suffix(path) == IF path = "d_doc" THEN ".doc" ELSE ".txt"

\* book_path.exists()
exists(path) == path \in ExistingBooks

\* Bookmark maps: name -> [page, timestamp].
NoBookmarks == [n \in {} |-> [page |-> 0, timestamp |-> 0]]
Mark(p) == [page |-> p, timestamp |-> 0]

\* What a sidecar file <stem>.bookmarks.json can be: absent, unparsable, or
\* a JSON object of bookmarks (some pointing outside any book of the model,
\* one named by the user the way add_bookmark names the second bookmark).
SidecarFiles ==
    { [exists |-> FALSE, valid |-> FALSE, map |-> NoBookmarks],
      [exists |-> TRUE,  valid |-> FALSE, map |-> NoBookmarks],
      [exists |-> TRUE,  valid |-> TRUE,  map |-> NoBookmarks],
      [exists |-> TRUE,  valid |-> TRUE,  map |-> [n \in {"m"} |-> Mark(1)]],
      [exists |-> TRUE,  valid |-> TRUE,
       map |-> [n \in {"m", "stale"} |-> IF n = "m" THEN Mark(2) ELSE Mark(7)]],
      [exists |-> TRUE,  valid |-> TRUE,  map |-> [n \in {"neg"} |-> Mark(-1)]],
      [exists |-> TRUE,  valid |-> TRUE,  map |-> [n \in {"bookmark 2"} |-> Mark(0)]] }

BookmarkNames == {"m", "stale", "neg", "none"}

\* ----------------------------------------------------------- BookManager
\* BookManager.__init__
NewBookManager ==
    [ current_book_path |-> None,
      pages             |-> << >>,
      current_page      |-> 0,
      total_pages       |-> 0,
      bookmarks         |-> NoBookmarks ]

\* go_to_page with the upper bound of the range test off by one.
go_to_page_PastEnd(b, page_num) ==
    IF 0 <= page_num /\ page_num <= Len(b.pages)
    THEN [bm |-> [b EXCEPT !.current_page = page_num], ok |-> TRUE]
    ELSE [bm |-> b, ok |-> FALSE]

\* BookManager.go_to_page(page_num): the manager after the call and its result.
go_to_page(b, page_num) ==
    IF 0 <= page_num /\ page_num < Len(b.pages)
    THEN [bm |-> [b EXCEPT !.current_page = page_num], ok |-> TRUE]
    ELSE [bm |-> b, ok |-> FALSE]

\* BookManager.next_page()
next_page(b) == go_to_page(b, b.current_page + 1)

\* BookManager.prev_page()
prev_page(b) == go_to_page(b, b.current_page - 1)

\* goto_bookmark that jumps to the bookmark's page without the range test.
goto_bookmark_Unchecked(b, name) ==
    IF name \in DOMAIN b.bookmarks
    THEN [bm |-> [b EXCEPT !.current_page = b.bookmarks[name].page], ok |-> TRUE]
    ELSE [bm |-> b, ok |-> FALSE]

\* BookManager.goto_bookmark(name)
goto_bookmark(b, name) ==
    IF name \in DOMAIN b.bookmarks
    THEN go_to_page(b, b.bookmarks[name].page)
    ELSE [bm |-> b, ok |-> FALSE]

\* BookManager.load_bookmarks(book_path), sc the sidecar file of the book.
load_bookmarks(b, sc) ==
    IF sc.exists
    THEN IF sc.valid THEN [b EXCEPT !.bookmarks = sc.map]
                     ELSE [b EXCEPT !.bookmarks = NoBookmarks]
    ELSE b

\* BookManager.load_book(book_path), sc the sidecar file of the book.
load_book(b, book_path, sc) ==
    IF ~exists(book_path) THEN [bm |-> b, ok |-> FALSE]
    ELSE LET b1 == [b EXCEPT !.current_book_path = book_path, !.current_page = 0]
         IN  IF suffix(book_path) \notin {".txt", ".epub", ".pdf"}
             THEN [bm |-> b1, ok |-> FALSE]
             ELSE Let(split_into_pages(BookText[book_path], ModelCharsPerPage),
                      LAMBDA pages :
                          LET b2 == [b1 EXCEPT !.pages = pages, !.total_pages = Len(pages)]
                          IN  [bm |-> load_bookmarks(b2, sc), ok |-> TRUE])

\* json.dump(self.bookmarks, f): the JSON object written, as the sequence of
\* its members << name, page, timestamp >> in the order the dict holds them.
RECURSIVE json_dump_items(_, _)
json_dump_items(map, names) ==
    IF names = {} THEN << >>
    ELSE LET n == CHOOSE x \in names : TRUE
         IN  << << n, map[n].page, map[n].timestamp >> >>
                 \o json_dump_items(map, names \ {n})

json_dump(map) == json_dump_items(map, DOMAIN map)

\* json.load(f) of such an object: a dict of its members, a later member
\* replacing an earlier one of the same name.
json_load(items) ==
    [ n \in {items[i][1] : i \in 1..Len(items)} |->
        LET i == SetMax({j \in 1..Len(items) : items[j][1] = n})
        IN  [page |-> items[i][2], timestamp |-> items[i][3]] ]

\* save_bookmarks writing the map without one of its bookmarks.
save_bookmarks_DropsOne(b, fs) ==
    IF b.current_book_path = None THEN fs
    ELSE LET items == json_dump(b.bookmarks)
         IN  [fs EXCEPT ![b.current_book_path] =
                 [exists |-> TRUE, valid |-> TRUE,
                  map |-> json_load(IF items = << >> THEN items ELSE Tail(items))]]

\* BookManager.save_bookmarks(): the sidecar files after the call (the branch
\* in which the file is written; a failed write is logged).
save_bookmarks(b, fs) ==
    IF b.current_book_path = None THEN fs
    ELSE [fs EXCEPT ![b.current_book_path] =
             [exists |-> TRUE, valid |-> TRUE, map |-> json_load(json_dump(b.bookmarks))]]

\* The names src/core/book_manager.py binds at module level: its imports and
\* its class.
ModuleGlobals == {"os", "re", "logging", "Path", "List", "Dict", "Optional", "BookManager"}

\* f"... {len(self.bookmarks) + 1}": the name given to a bookmark added
\* without one.
DefaultBookmarkName(n) == "bookmark " \o ToString(n)

\* BookManager.add_bookmark(name), now what time.time() would return: the
\* manager and the sidecar files after the call, its result, and the
\* exception it raised.
add_bookmark(b, fs, name, now) ==
    IF b.current_book_path = None
    THEN [bm |-> b, fs |-> fs, ok |-> FALSE, error |-> None]
    ELSE LET name1 == IF name = None
                      THEN DefaultBookmarkName(Cardinality(DOMAIN b.bookmarks) + 1)
                      ELSE name
         IN  IF "time" \notin ModuleGlobals
             THEN [bm |-> b, fs |-> fs, ok |-> FALSE, error |-> "NameError"]
             ELSE LET b1 == [b EXCEPT !.bookmarks =
                                [n \in DOMAIN @ \cup {name1} |->
                                    IF n = name1 THEN [page |-> b.current_page, timestamp |-> now]
                                    ELSE @[n]]]
                  IN  [bm |-> b1, fs |-> save_bookmarks(b1, fs), ok |-> TRUE, error |-> None]

\* ---------------------------------------------------------------- screens
\* HomeScreen.items_per_page
items_per_page == 6

\* MenuScreen.menu_items: the action of every item, in order.
menu_items == << "BACK", "SETTINGS", "BOOKMARKS", "WIFI_UPLOAD", "ABOUT", "SHUTDOWN" >>

\* The data that goes with an event: nothing, a page number or a book path.
NoData == [kind |-> "none", n |-> 0, path |-> None]
IntData(n) == [kind |-> "int", n |-> n, path |-> None]
PathData(path) == [kind |-> "path", n |-> 0, path |-> path]

\* What a screen's handle_event returns: None or a command with its data.
NoResult == [event |-> None, data |-> NoData]
Result(event, data) == [event |-> event, data |-> data]

\* What the books directory can hold: nothing, or the supported files of the
\* model, newest first.
Shelf == << "a_txt", "b_txt", "blank_txt" >>
BookDirs == { << >>, Shelf }

\* BookManager.list_books(): the supported files of the books directory,
\* newest first.
list_books(s) == s.books_dir

\* What the record of one dispatch starts as: the events handle_event was
\* entered with, the commands the screens returned, the number of save_config
\* calls, of frames shown and of frames the panel refused, and the exception
\* that ended it.
NoTrace == [chain |-> << >>, emitted |-> << >>, saves |-> 0, renders |-> 0,
            failed |-> 0, error |-> None]

\* EinkDisplay.display(image): the panel shows the frame and display returns
\* True, or the driver raises, the failure is logged and display returns
\* False. No caller looks at the value returned.
display(s, frame) ==
    IF s.panel_ok
    THEN [s EXCEPT !.shown = frame, !.tr.renders = @ + 1]
    ELSE [s EXCEPT !.tr.failed = @ + 1]

\* HomeScreen.render()
HomeScreen_render(s) ==
    LET books == list_books(s)
    IN  display([s EXCEPT !.home.books = books],
                [screen |-> "home", book |-> None,
                 page |-> s.home.current_page, selected |-> s.home.selected_index])

\* ReadingScreen.render()
ReadingScreen_render(s) ==
    IF /\ s.bm.current_book_path # None
       /\ 0 <= s.bm.current_page /\ s.bm.current_page < Len(s.bm.pages)
    THEN display(s, [screen |-> "reading", book |-> s.bm.current_book_path,
                     page |-> s.bm.current_page, selected |-> 0])
    ELSE display(s, [screen |-> "reading", book |-> None, page |-> 0, selected |-> 0])

\* MenuScreen.render()
MenuScreen_render(s) ==
    display(s, [screen |-> "menu", book |-> None, page |-> 0,
                selected |-> s.menu.selected_index])

\* BaseScreen.show() of the screen named name.
show(s, name) ==
    IF ~s[name].need_refresh THEN s
    ELSE Let(CASE name = "home" -> HomeScreen_render(s)
               [] name = "reading" -> ReadingScreen_render(s)
               [] name = "menu" -> MenuScreen_render(s),
             LAMBDA r : [r EXCEPT ![name].need_refresh = FALSE])

\* HomeScreen.handle_event(event_type, event_data): the state after it and
\* the command it returns.
HomeScreen_handle_event(s, event_type, event_data) ==
    LET h == s.home
        n == Len(h.books)
        total_pages == (n + items_per_page - 1) \div items_per_page
        refresh(h2) == [s |-> [s EXCEPT !.home = [h2 EXCEPT !.need_refresh = TRUE]],
                        result |-> Result("REFRESH", NoData)]
        none == [s |-> s, result |-> NoResult]
    IN  CASE event_type = "NEXT_PAGE" ->
                IF h.current_page < total_pages - 1
                THEN refresh([h EXCEPT !.current_page = @ + 1]) ELSE none
          [] event_type = "PREV_PAGE" ->
                IF h.current_page > 0
                THEN refresh([h EXCEPT !.current_page = @ - 1]) ELSE none
          [] event_type = "UP" ->
                IF h.selected_index > 0
                THEN LET i == h.selected_index - 1
                     IN  refresh([h EXCEPT !.selected_index = i,
                                   !.current_page =
                                       IF i < h.current_page * items_per_page
                                       THEN IF @ - 1 > 0 THEN @ - 1 ELSE 0
                                       ELSE @])
                ELSE none
          [] event_type = "DOWN" ->
                IF h.selected_index < n - 1
                THEN LET i == h.selected_index + 1
                     IN  refresh([h EXCEPT !.selected_index = i,
                                   !.current_page =
                                       IF i >= (h.current_page + 1) * items_per_page
                                       THEN @ + 1 ELSE @])
                ELSE none
          [] event_type = "SELECT" ->
                IF 0 <= h.selected_index /\ h.selected_index < n
                THEN [s |-> s,
                      result |-> Result("LOAD_BOOK", PathData(h.books[h.selected_index + 1]))]
                ELSE none
          [] event_type = "SHOW_MENU" ->
                [s |-> s, result |-> Result("SHOW_MENU", NoData)]
          [] OTHER -> none

\* ReadingScreen.handle_event with the page change not written to the config.
ReadingScreen_handle_event_StaleConfig(s, event_type, event_data) ==
    LET turned(r) ==
            IF r.ok
            THEN [s |-> [s EXCEPT !.bm = r.bm, !.reading.need_refresh = TRUE],
                  result |-> Result("SAVE_CONFIG", NoData)]
            ELSE [s |-> s, result |-> NoResult]
    IN  CASE event_type = "NEXT_PAGE" -> turned(next_page(s.bm))
          [] event_type = "PREV_PAGE" -> turned(prev_page(s.bm))
          [] event_type = "SHOW_HOME" -> [s |-> s, result |-> Result("SHOW_HOME", NoData)]
          [] event_type = "SHOW_MENU" -> [s |-> s, result |-> Result("SHOW_MENU", NoData)]
          [] event_type = "GOTO_PAGE" ->
                IF event_data.kind = "int" THEN turned(go_to_page(s.bm, event_data.n))
                ELSE [s |-> s, result |-> NoResult]
          [] OTHER -> [s |-> s, result |-> NoResult]

\* ReadingScreen.handle_event with the next page wrapping round to the first.
ReadingScreen_handle_event_Wraps(s, event_type, event_data) ==
    LET turned(r) ==
            IF r.ok
            THEN [s |-> [s EXCEPT !.bm = r.bm,
                                  !.config.current_page = r.bm.current_page,
                                  !.reading.need_refresh = TRUE],
                  result |-> Result("SAVE_CONFIG", NoData)]
            ELSE [s |-> s, result |-> NoResult]
    IN  CASE event_type = "NEXT_PAGE" ->
                IF next_page(s.bm).ok THEN turned(next_page(s.bm))
                ELSE turned(go_to_page(s.bm, 0))
          [] event_type = "PREV_PAGE" -> turned(prev_page(s.bm))
          [] event_type = "SHOW_HOME" -> [s |-> s, result |-> Result("SHOW_HOME", NoData)]
          [] event_type = "SHOW_MENU" -> [s |-> s, result |-> Result("SHOW_MENU", NoData)]
          [] event_type = "GOTO_PAGE" ->
                IF event_data.kind = "int" THEN turned(go_to_page(s.bm, event_data.n))
                ELSE [s |-> s, result |-> NoResult]
          [] OTHER -> [s |-> s, result |-> NoResult]

\* ReadingScreen.handle_event(event_type, event_data)
ReadingScreen_handle_event(s, event_type, event_data) ==
    LET turned(r) ==
            IF r.ok
            THEN [s |-> [s EXCEPT !.bm = r.bm,
                                  !.config.current_page = r.bm.current_page,
                                  !.reading.need_refresh = TRUE],
                  result |-> Result("SAVE_CONFIG", NoData)]
            ELSE [s |-> s, result |-> NoResult]
    IN  CASE event_type = "NEXT_PAGE" -> turned(next_page(s.bm))
          [] event_type = "PREV_PAGE" -> turned(prev_page(s.bm))
          [] event_type = "SHOW_HOME" -> [s |-> s, result |-> Result("SHOW_HOME", NoData)]
          [] event_type = "SHOW_MENU" -> [s |-> s, result |-> Result("SHOW_MENU", NoData)]
          [] event_type = "GOTO_PAGE" ->
                IF event_data.kind = "int" THEN turned(go_to_page(s.bm, event_data.n))
                ELSE [s |-> s, result |-> NoResult]
          [] OTHER -> [s |-> s, result |-> NoResult]

\* MenuScreen.handle_event(event_type, event_data)
MenuScreen_handle_event(s, event_type, event_data) ==
    LET m == s.menu
        refresh(m2) == [s |-> [s EXCEPT !.menu = [m2 EXCEPT !.need_refresh = TRUE]],
                        result |-> Result("REFRESH", NoData)]
        none == [s |-> s, result |-> NoResult]
        cmd(c) == [s |-> s, result |-> Result(c, NoData)]
    IN  CASE event_type = "UP" ->
                IF m.selected_index > 0
                THEN refresh([m EXCEPT !.selected_index = @ - 1]) ELSE none
          [] event_type = "DOWN" ->
                IF m.selected_index < Len(menu_items) - 1
                THEN refresh([m EXCEPT !.selected_index = @ + 1]) ELSE none
          [] event_type = "SELECT" ->
                (LET action == menu_items[m.selected_index + 1]
                 IN  CASE action = "BACK" ->
                             IF s.bm.current_book_path # None
                             THEN cmd("SHOW_READING") ELSE cmd("SHOW_HOME")
                       [] action = "SETTINGS" -> cmd("SHOW_SETTINGS")
                       [] action = "BOOKMARKS" -> cmd("SHOW_BOOKMARKS")
                       [] action = "WIFI_UPLOAD" -> cmd("START_WIFI_UPLOAD")
                       [] action = "ABOUT" -> cmd("SHOW_ABOUT")
                       [] action = "SHUTDOWN" -> cmd("SHUTDOWN_CONFIRM"))
          [] event_type = "SHOW_HOME" -> cmd("SHOW_HOME")
          [] OTHER -> none

\* ------------------------------------------------------------- controller
\* EinkReader.save_config(): config.json holds the config (the branch in
\* which the file is written; a failed write is logged and changes nothing).
save_config(s) == [s EXCEPT !.disk = s.config, !.tr.saves = @ + 1]

\* EinkReader.show_current_screen()
show_current_screen(s) ==
    IF s.current_screen \in {"home", "reading", "menu"}
    THEN show(s, s.current_screen) ELSE s

\* EinkReader.load_book that leaves the config's current_page as it was.
EinkReader_load_book_KeepsPage(s, book_path) ==
    Let(load_book(s.bm, book_path, s.sidecar[book_path]),
        LAMBDA r :
            IF r.ok
            THEN Let(save_config([s EXCEPT !.bm = r.bm,
                                           !.config.current_book = book_path]),
                     LAMBDA s1 : Let([s1 EXCEPT !.current_screen = "reading"],
                                     LAMBDA s2 : show_current_screen(s2)))
            ELSE [s EXCEPT !.bm = r.bm])

\* EinkReader.load_book(book_path)
EinkReader_load_book(s, book_path) ==
    Let(load_book(s.bm, book_path, s.sidecar[book_path]),
        LAMBDA r :
            IF r.ok
            THEN Let(save_config([s EXCEPT !.bm = r.bm,
                                           !.config.current_book = book_path,
                                           !.config.current_page = 0]),
                     LAMBDA s1 : Let([s1 EXCEPT !.current_screen = "reading"],
                                     LAMBDA s2 : show_current_screen(s2)))
            ELSE [s EXCEPT !.bm = r.bm])

\* The state without the record of the dispatch: what a handler's behaviour
\* depends on.
Core(s) == [s EXCEPT !.tr = NoTrace]

\* The active screen's handle_event.
screen_handle_event(s, event_type, event_data) ==
    CASE s.current_screen = "home" -> HomeScreen_handle_event(s, event_type, event_data)
      [] s.current_screen = "reading" -> ReadingScreen_handle_event(s, event_type, event_data)
      [] s.current_screen = "menu" -> MenuScreen_handle_event(s, event_type, event_data)
      [] OTHER -> [s |-> s, result |-> NoResult]

\* The system-level part with an EXIT branch that also goes back to Home.
system_event_ExitGoesHome(s, event_type, event_data) ==
    CASE event_type = "LOAD_BOOK" ->
            IF event_data.kind = "path" THEN EinkReader_load_book(s, event_data.path)
            ELSE [s EXCEPT !.tr.error = "TypeError"]
      [] event_type = "EXIT" -> [s EXCEPT !.running = FALSE, !.current_screen = "home"]
      [] event_type = "SAVE_CONFIG" -> save_config(s)
      [] event_type = "SHOW_HOME" -> Let([s EXCEPT !.current_screen = "home"], LAMBDA s1 : show_current_screen(s1))
      [] event_type = "SHOW_MENU" -> Let([s EXCEPT !.current_screen = "menu"], LAMBDA s1 : show_current_screen(s1))
      [] OTHER -> s

\* The system-level part of EinkReader.handle_event (the if/elif chain that
\* follows the screen's turn); `"path" in event_data` raises TypeError when
\* event_data is None or a number.
system_event(s, event_type, event_data) ==
    CASE event_type = "LOAD_BOOK" ->
            IF event_data.kind = "path" THEN EinkReader_load_book(s, event_data.path)
            ELSE [s EXCEPT !.tr.error = "TypeError"]
      [] event_type = "EXIT" -> [s EXCEPT !.running = FALSE]
      [] event_type = "SAVE_CONFIG" -> save_config(s)
      [] event_type = "SHOW_HOME" -> Let([s EXCEPT !.current_screen = "home"], LAMBDA s1 : show_current_screen(s1))
      [] event_type = "SHOW_MENU" -> Let([s EXCEPT !.current_screen = "menu"], LAMBDA s1 : show_current_screen(s1))
      [] OTHER -> s

\* EinkReader.handle_event(event_type, event_data). The active screen handles
\* the event first; a command it returns is dispatched by a recursive call
\* before the system-level part runs. stack holds the (state, event, data) of
\* the calls in progress: the handlers are deterministic, so entering a call
\* with a state and event already on the stack recurses without end, which
\* Python ends with a RecursionError that unwinds every call in progress.
RECURSIVE handle_event(_, _, _, _)
handle_event(s, event_type, event_data, stack) ==
    LET key == << Core(s), event_type, event_data >>
        s0 == [s EXCEPT !.tr.chain = Append(@, event_type)]
        follow(r) ==
            IF r.result = NoResult THEN r.s
            ELSE Let([r.s EXCEPT !.tr.emitted = Append(@, r.result.event)],
                     LAMBDA s1 : handle_event(s1, r.result.event, r.result.data,
                                              stack \cup {key}))
    IN  IF key \in stack THEN [s0 EXCEPT !.tr.error = "RecursionError"]
        ELSE Let(screen_handle_event(s0, event_type, event_data),
                 LAMBDA r : Let(follow(r),
                                LAMBDA s2 : IF s2.tr.error # None THEN s2
                                            ELSE system_event(s2, event_type, event_data)))

\* The physical buttons.
Buttons == {"PREV", "NEXT", "HOME", "MENU"}

\* button_events with NEXT mapped to the Down key of the lists.
button_events_NextIsDown ==
    [ PREV |-> "PREV_PAGE", NEXT |-> "DOWN", HOME |-> "SHOW_HOME", MENU |-> "SHOW_MENU" ]

\* button_events of EinkReader.handle_button
button_events ==
    [ PREV |-> "PREV_PAGE", NEXT |-> "NEXT_PAGE", HOME |-> "SHOW_HOME", MENU |-> "SHOW_MENU" ]

\* EinkReader.handle_button(button): a click.
handle_button(s, button) ==
    IF button \in DOMAIN button_events
    THEN handle_event(s, button_events[button], NoData, {})
    ELSE s

\* EinkReader.handle_button_long(button): a long press.
handle_button_long(s, button) ==
    IF button = "HOME" THEN handle_event(s, "EXIT", NoData, {}) ELSE s

\* BaseScreen.__init__ / HomeScreen.__init__ / MenuScreen.__init__
NewHome == [selected_index |-> 0, need_refresh |-> TRUE, books |-> << >>, current_page |-> 0]
NewReading == [need_refresh |-> TRUE]
NewMenu == [selected_index |-> 0, need_refresh |-> TRUE]

\* The frame of show_splash_screen.
Splash == [screen |-> "splash", book |-> None, page |-> 0, selected |-> 0]

\* EinkReader.__init__ and initialize() on the persisted config cfg, the
\* sidecar files fs and the books directory dir, up to init_screens.
NewReader(cfg, fs, dir) ==
    [ running |-> TRUE, current_screen |-> "home",
      config |-> cfg, disk |-> cfg,
      bm |-> NewBookManager, sidecar |-> fs,
      books_dir |-> dir, panel_ok |-> TRUE,
      home |-> NewHome, reading |-> NewReading, menu |-> NewMenu,
      shown |-> Splash, tr |-> NoTrace ]

\* initialize with the persisted page put back after the load.
initialize_ResumesPage(cfg, fs, dir) ==
    Let(NewReader(cfg, fs, dir),
        LAMBDA s : IF cfg.current_book # None
                   THEN Let(EinkReader_load_book(s, cfg.current_book),
                            LAMBDA s1 : save_config([s1 EXCEPT !.config.current_page =
                                                                  cfg.current_page]))
                   ELSE s)

\* EinkReader.initialize() from the splash screen on, the display being
\* constructed (see EinkReader_initialize): the last-read book is loaded when
\* the config names one.
initialize(cfg, fs, dir) ==
    Let(NewReader(cfg, fs, dir),
        LAMBDA s : IF cfg.current_book # None
                   THEN EinkReader_load_book(s, cfg.current_book)
                   ELSE s)

\* EinkReader.run() up to its loop: the initial screen is shown.
run_start(s) == show_current_screen(s)

\* --------------------------------------------------------------- variables
VARIABLES
    text,       \* SpecPaginate: the text given to split_into_pages
    budget,     \* SpecPaginate: its chars_per_page
    called,     \* SpecPaginate: split_into_pages has returned
    result,     \* SpecPaginate: the pages it returned
    groups      \* SpecPaginate: the paragraph lists behind the pages returned
                \* (the placeholder counts as the one paragraph of its page)

VARIABLES
    bm,         \* the BookManager: current_book_path, pages, current_page,
                \* total_pages, bookmarks
    sidecar,    \* the bookmark sidecar file of every book
    last        \* the last call made on the BookManager and what it returned

VARIABLES
    running,        \* EinkReader.running
    current_screen, \* EinkReader.current_screen
    config,         \* EinkReader.config: current_book, current_page
    disk,           \* what config.json holds
    home,           \* the HomeScreen: selected_index, current_page, books, need_refresh
    reading,        \* the ReadingScreen: need_refresh
    menu,           \* the MenuScreen: selected_index, need_refresh
    shown,          \* the frame on the panel
    books_dir,      \* the listing of the books directory
    panel_ok,       \* the panel accepts the frames it is given
    tr,             \* the record of the last dispatch (see NoTrace)
    ev              \* the last event given to the controller and the screen
                    \* that was active when it was given

VARIABLES
    gpio,       \* the GPIOController: event_queue, the button whose last state
                \* is pressed, the polls since its press_time, the appends of
                \* the current poll still to be made, running
    pins,       \* the physical buttons: the one held down, the presses so far
    main,       \* the main thread: its place in run(), the drained events
                \* not yet processed, the number of cleanup() calls
    log         \* the click and long-press events enqueued so far and those
                \* handed to the controller so far

VARIABLES
    config_file,    \* SpecConfig: what config.json holds when load_config runs
    loaded          \* SpecConfig: what load_config returned

VARIABLES
    box,            \* SpecTextBox: the text and the box handed to draw_text_box
    drawn           \* SpecTextBox: what draw_text_box drew and returned

VARIABLES
    driver,         \* SpecDisplay: the panel driver of the machine
    boot            \* SpecDisplay: what constructing the display, or
                    \* initialize(), came to

pagVars  == << text, budget, called, result, groups >>
loopVars == << gpio, pins, main, log >>
cfgVars  == << config_file, loaded >>
boxVars  == << box, drawn >>
bootVars == << driver, boot >>
bookVars == << bm, sidecar, last >>
readerVars == << running, current_screen, config, disk, home, reading, menu, shown,
                books_dir, panel_ok, tr, ev >>
vars == << pagVars, bookVars, readerVars, loopVars, cfgVars, boxVars, bootVars >>

\* The variables a specification does not use keep these values.
IdlePaginate ==
    /\ text = <<>>
    /\ budget = 1
    /\ called = FALSE
    /\ result = <<>>
    /\ groups = <<>>

\* No button, no poller, no main loop.
IdleLoop ==
    /\ gpio = [event_queue |-> << >>, seen |-> None, held |-> 0, pending |-> << >>,
               running |-> FALSE]
    /\ pins = [down |-> None, presses |-> 0]
    /\ main = [pc |-> "none", batch |-> << >>, teardowns |-> 0]
    /\ log = [appended |-> << >>, enqueued |-> << >>, handed |-> << >>]

IdleConfig ==
    /\ config_file = [kind |-> "missing"]
    /\ loaded = [kind |-> "none"]

IdleBox ==
    /\ box = [text |-> << >>, width |-> 1, height |-> 1, line_height |-> 1]
    /\ drawn = [kind |-> "none"]

IdleBoot ==
    /\ driver = [has_real_driver |-> FALSE, epd_init_ok |-> FALSE, screen_type |-> "7in5"]
    /\ boot = [kind |-> "none"]

NoCall == [op |-> "none", arg |-> None, ok |-> FALSE, error |-> None]

NoSidecars == [p \in Paths |-> CHOOSE f \in SidecarFiles : ~f.exists]

IdleBook ==
    /\ bm = NewBookManager
    /\ sidecar = NoSidecars
    /\ last = NoCall

\* The controller's state as one record, and the variables set from one.
AppState ==
    [ running |-> running, current_screen |-> current_screen,
      config |-> config, disk |-> disk, bm |-> bm, sidecar |-> sidecar,
      home |-> home, reading |-> reading, menu |-> menu,
      books_dir |-> books_dir, panel_ok |-> panel_ok,
      shown |-> shown, tr |-> tr ]

Becomes(s) ==
    /\ running' = s.running
    /\ current_screen' = s.current_screen
    /\ config' = s.config
    /\ disk' = s.disk
    /\ bm' = s.bm
    /\ sidecar' = s.sidecar
    /\ home' = s.home
    /\ reading' = s.reading
    /\ menu' = s.menu
    /\ books_dir' = s.books_dir
    /\ panel_ok' = s.panel_ok
    /\ shown' = s.shown
    /\ tr' = s.tr

DefaultConfig == [current_book |-> None, current_page |-> 0]

NoEvent == [via |-> "none", button |-> None, type |-> None, data |-> NoData,
            screen |-> None]

IdleReader ==
    /\ running = TRUE
    /\ current_screen = "home"
    /\ config = DefaultConfig
    /\ disk = DefaultConfig
    /\ home = NewHome
    /\ reading = NewReading
    /\ menu = NewMenu
    /\ shown = Splash
    /\ books_dir = Shelf
    /\ panel_ok = TRUE
    /\ tr = NoTrace
    /\ ev = NoEvent

\* ---------------------------------------------------------- SpecPaginate
InitPaginate ==
    /\ text \in SeqsUpTo(Chars, MaxTextLen)
    /\ budget \in 1..MaxBudget
    /\ called = FALSE
    /\ result = <<>>
    /\ groups = <<>>
    /\ IdleBook
    /\ IdleReader
    /\ IdleLoop
    /\ IdleConfig
    /\ IdleBox
    /\ IdleBoot

\* pages = split_into_pages(text, budget)
Paginate ==
    /\ ~called
    /\ called' = TRUE
    /\ result' = split_into_pages(text, budget)
    /\ groups' = IF text = <<>> THEN << << Placeholder >> >>
                  ELSE PageParagraphs(text, budget)
    /\ UNCHANGED << text, budget, bookVars, readerVars, loopVars, cfgVars, boxVars, bootVars >>

NextPaginate == Paginate

SpecPaginate == InitPaginate /\ [][NextPaginate]_vars

\* -------------------------------------------------------------- SpecBook
\* A BookManager as constructed, over a books directory in which the
\* sidecars of a_txt and b_txt are any of SidecarFiles.
InitBook ==
    /\ IdlePaginate
    /\ bm = NewBookManager
    /\ \E fa \in SidecarFiles, fb \in SidecarFiles :
          sidecar = [p \in Paths |->
                        IF p = "a_txt" THEN fa
                        ELSE IF p = "b_txt" THEN fb
                        ELSE NoSidecars[p]]
    /\ last = NoCall
    /\ IdleReader
    /\ IdleLoop
    /\ IdleConfig
    /\ IdleBox
    /\ IdleBoot

Call(op, arg, ret) ==
    \E r \in {ret} :
        /\ bm' = r.bm
        /\ last' = [op |-> op, arg |-> arg, ok |-> r.ok, error |-> None]
        /\ UNCHANGED << sidecar, pagVars, readerVars, loopVars, cfgVars, boxVars, bootVars >>

\* A call that may write a sidecar file or raise.
CallFs(op, arg, ret) ==
    \E r \in {ret} :
        /\ bm' = r.bm
        /\ sidecar' = r.fs
        /\ last' = [op |-> op, arg |-> arg, ok |-> r.ok, error |-> r.error]
        /\ UNCHANGED << pagVars, readerVars, loopVars, cfgVars, boxVars, bootVars >>

LoadBook == \E path \in Paths : Call("load_book", path, load_book(bm, path, sidecar[path]))

NextPage == Call("next_page", None, next_page(bm))

PrevPage == Call("prev_page", None, prev_page(bm))

GoToPage == \E n \in -1..MaxPageArg : Call("go_to_page", n, go_to_page(bm, n))

GotoBookmark == \E name \in BookmarkNames : Call("goto_bookmark", name, goto_bookmark(bm, name))

\* time.time() as the model sees it.
Timestamps == {0, 1}

AddBookmark ==
    \E name \in {None} \cup BookmarkNames, now \in Timestamps :
        CallFs("add_bookmark", name, add_bookmark(bm, sidecar, name, now))

SaveBookmarks ==
    CallFs("save_bookmarks", None,
           [bm |-> bm, fs |-> save_bookmarks(bm, sidecar),
            ok |-> bm.current_book_path # None, error |-> None])

\* load_bookmarks(book_path) for the current book.
LoadBookmarks ==
    /\ bm.current_book_path # None
    /\ CallFs("load_bookmarks", bm.current_book_path,
              [bm |-> load_bookmarks(bm, sidecar[bm.current_book_path]), fs |-> sidecar,
               ok |-> TRUE, error |-> None])

NextBook ==
    \/ LoadBook \/ NextPage \/ PrevPage \/ GoToPage \/ GotoBookmark
    \/ AddBookmark \/ SaveBookmarks \/ LoadBookmarks

SpecBook == InitBook /\ [][NextBook]_vars

\* ------------------------------------------------------------ SpecReader
\* The config files a session can start from.
PersistedConfigs ==
    [current_book : {None} \cup Paths, current_page : {0, 2}]

\* The sidecar files a session can start with: a_txt has bookmarks, the
\* other books have no sidecar.
SidecarChoices ==
    { [p \in Paths |-> IF p = "a_txt" THEN fa ELSE NoSidecars[p]] :
        fa \in {f \in SidecarFiles : "stale" \in DOMAIN f.map} }

\* The controller after an initialize() that returned True (display, book
\* manager, buttons and screens constructed) and the first
\* show_current_screen() of run(), for every persisted config.
InitReader ==
    /\ IdlePaginate
    /\ IdleLoop
    /\ IdleConfig
    /\ IdleBox
    /\ IdleBoot
    /\ last = NoCall
    /\ ev = NoEvent
    /\ \E cfg \in PersistedConfigs, fs \in SidecarChoices, dir \in BookDirs :
       \E s \in {Let(initialize(cfg, fs, dir), LAMBDA s0 : run_start(s0))} :
              /\ running = s.running
              /\ current_screen = s.current_screen
              /\ config = s.config
              /\ disk = s.disk
              /\ bm = s.bm
              /\ sidecar = s.sidecar
              /\ home = s.home
              /\ reading = s.reading
              /\ menu = s.menu
              /\ books_dir = s.books_dir
              /\ panel_ok = s.panel_ok
              /\ shown = s.shown
              /\ tr = s.tr

\* The state a dispatch starts from: no exception has ended the main loop.
Fresh == [AppState EXCEPT !.tr = NoTrace]

Given(via, button, type, data) ==
    ev' = [via |-> via, button |-> button, type |-> type, data |-> data,
           screen |-> current_screen]

\* process_events hands a BUTTON_CLICK to handle_button.
Click ==
    \E b \in Buttons :
        /\ tr.error = None
        /\ Given("click", b, button_events[b], NoData)
        /\ \E s \in {Fresh} : \E s2 \in {handle_button(s, b)} : Becomes(s2)
        /\ UNCHANGED << pagVars, last, loopVars, cfgVars, boxVars, bootVars >>

\* handle_button_long(button) called with the name of a button.
LongPress ==
    \E b \in Buttons :
        /\ tr.error = None
        /\ Given("long", b, IF b = "HOME" THEN "EXIT" ELSE None, NoData)
        /\ \E s \in {Fresh} : \E s2 \in {handle_button_long(s, b)} : Becomes(s2)
        /\ UNCHANGED << pagVars, last, loopVars, cfgVars, boxVars, bootVars >>

\* The events no button is mapped to, given to handle_event directly.
DirectEvents ==
    { << e, NoData >> : e \in {"UP", "DOWN", "SELECT", "SHOW_READING", "REFRESH",
                               "SAVE_CONFIG", "GOTO_PAGE", "LOAD_BOOK"} }
    \cup { << "GOTO_PAGE", IntData(n) >> : n \in -1..MaxPageArg }
    \cup { << "LOAD_BOOK", PathData(path) >> : path \in Paths }

\* handle_event(event_type, event_data) called with such an event.
Dispatch ==
    \E e \in DirectEvents :
        /\ tr.error = None
        /\ Given("event", None, e[1], e[2])
        /\ \E s \in {Fresh} : \E s2 \in {handle_event(s, e[1], e[2], {})} : Becomes(s2)
        /\ UNCHANGED << pagVars, last, loopVars, cfgVars, boxVars, bootVars >>

NextReader == Click \/ LongPress \/ Dispatch

SpecReader == InitReader /\ [][NextReader]_vars

\* ----------------------------------------------------------- SpecButtons
\* A session driven by the buttons alone: clicks and long presses.
NextButtons == Click \/ LongPress

SpecButtons == InitReader /\ [][NextButtons]_vars

\* The variables of the controller are those of the state s.
StartsAs(s) ==
    /\ running = s.running
    /\ current_screen = s.current_screen
    /\ config = s.config
    /\ disk = s.disk
    /\ bm = s.bm
    /\ sidecar = s.sidecar
    /\ home = s.home
    /\ reading = s.reading
    /\ menu = s.menu
    /\ books_dir = s.books_dir
    /\ panel_ok = s.panel_ok
    /\ shown = s.shown
    /\ tr = s.tr

\* The configs of the sessions: no book read yet, or a.txt being read.
MenuConfigs == { DefaultConfig, [current_book |-> "a_txt", current_page |-> 0] }

\* ------------------------------------------------------------- SpecPanel
\* The driver starts to raise when it is given a frame, or stops doing so.
PanelFails ==
    /\ tr.error = None
    /\ panel_ok
    /\ panel_ok' = FALSE
    /\ UNCHANGED << running, current_screen, config, disk, home, reading, menu, shown,
                    books_dir, tr, ev, pagVars, bookVars, loopVars, cfgVars, boxVars, bootVars >>

PanelRecovers ==
    /\ tr.error = None
    /\ ~panel_ok
    /\ panel_ok' = TRUE
    /\ UNCHANGED << running, current_screen, config, disk, home, reading, menu, shown,
                    books_dir, tr, ev, pagVars, bookVars, loopVars, cfgVars, boxVars, bootVars >>

\* A session, started with a working panel, in which the panel can fail.
InitPanel ==
    /\ IdlePaginate
    /\ IdleLoop
    /\ IdleConfig
    /\ IdleBox
    /\ IdleBoot
    /\ last = NoCall
    /\ ev = NoEvent
    /\ \E cfg \in MenuConfigs, fs \in SidecarChoices :
       \E s \in {Let(initialize(cfg, fs, Shelf), LAMBDA s0 : run_start(s0))} : StartsAs(s)

\* handle_event called with a key of the Home list or with a book to load.
DispatchPanel ==
    \E e \in { << k, NoData >> : k \in {"UP", "DOWN", "SELECT"} }
              \cup { << "LOAD_BOOK", PathData(path) >> : path \in {"a_txt", "gone_txt"} } :
        /\ tr.error = None
        /\ Given("event", None, e[1], e[2])
        /\ \E s \in {Fresh} : \E s2 \in {handle_event(s, e[1], e[2], {})} : Becomes(s2)
        /\ UNCHANGED << pagVars, last, loopVars, cfgVars, boxVars, bootVars >>

NextPanel == Click \/ LongPress \/ DispatchPanel \/ PanelFails \/ PanelRecovers

SpecPanel == InitPanel /\ [][NextPanel]_vars

\* -------------------------------------------------------------- SpecMenu
\* A session in which Menu is the active screen: the controller as the
\* SHOW_MENU branch of handle_event leaves it (current_screen = "menu", the
\* menu shown), entered from the state a session starts in.
InitMenu ==
    /\ IdlePaginate
    /\ IdleLoop
    /\ IdleConfig
    /\ IdleBox
    /\ IdleBoot
    /\ last = NoCall
    /\ ev = NoEvent
    /\ \E cfg \in MenuConfigs, fs \in SidecarChoices :
       \E s0 \in {Let(initialize(cfg, fs, Shelf), LAMBDA s : run_start(s))} :
       \E s1 \in {system_event(s0, "SHOW_MENU", NoData)} :
           StartsAs(Core(s1))

\* handle_event called with an event of the menu's own keys.
DispatchMenu ==
    \E e \in {"UP", "DOWN", "SELECT"} :
        /\ tr.error = None
        /\ Given("event", None, e, NoData)
        /\ \E s \in {Fresh} : \E s2 \in {handle_event(s, e, NoData, {})} : Becomes(s2)
        /\ UNCHANGED << pagVars, last, loopVars, cfgVars, boxVars, bootVars >>

NextMenu == Click \/ LongPress \/ DispatchMenu

SpecMenu == InitMenu /\ [][NextMenu]_vars

\* -------------------------------------------------------------- SpecHome
\* The books of the longest list.
MaxBooks == 13

\* A books directory of n supported files.
BooksOf(n) == [i \in 1..n |-> "book" \o ToString(i)]

\* A session on the Home screen, rendered once, over a list of 1 to MaxBooks
\* books.
InitHome ==
    /\ IdlePaginate
    /\ IdleLoop
    /\ IdleConfig
    /\ IdleBox
    /\ IdleBoot
    /\ last = NoCall
    /\ ev = NoEvent
    /\ \E n \in 1..MaxBooks :
       \E s \in {Let(initialize(DefaultConfig, NoSidecars, BooksOf(n)),
                     LAMBDA s0 : run_start(s0))} : StartsAs(s)

\* The events that move the Home list.
HomeKeys == {"UP", "DOWN", "NEXT_PAGE", "PREV_PAGE"}

\* HomeScreen.handle_event(event_type) called with such an event.
HomeKey ==
    \E e \in HomeKeys :
        /\ current_screen = "home"
        /\ Given("screen", None, e, NoData)
        /\ \E s \in {Fresh} : \E r \in {HomeScreen_handle_event(s, e, NoData)} : Becomes(r.s)
        /\ UNCHANGED << pagVars, last, loopVars, cfgVars, boxVars, bootVars >>

\* HomeScreen.show(): the list is rendered when need_refresh is set.
HomeShow ==
    /\ current_screen = "home"
    /\ home.need_refresh
    /\ Given("show", None, None, NoData)
    /\ \E s \in {Fresh} : \E s2 \in {show(s, "home")} : Becomes(s2)
    /\ UNCHANGED << pagVars, last, loopVars, cfgVars, boxVars, bootVars >>

NextHome == HomeKey \/ HomeShow

SpecHome == InitHome /\ [][NextHome]_vars

\* ------------------------------------------------------------ SpecConfig
\* The keys of default_config in the order of the dict, and its values
\* written as JSON text.
ConfigKeys == << "screen_type", "font_size", "line_spacing", "margin", "auto_sleep",
                "books_dir", "current_book", "current_page", "theme" >>

default_config ==
    [screen_type |-> "7in5", font_size |-> "20", line_spacing |-> "1.5", margin |-> "20",
     auto_sleep |-> "300", books_dir |-> "books", current_book |-> "null",
     current_page |-> "0", theme |-> "light"]

KeySet == {ConfigKeys[i] : i \in DOMAIN ConfigKeys}

\* A JSON value: an object with its members, an array or a string with the
\* key names found in it, or a scalar (null, a number, true, false).
JsonObject(map) == [kind |-> "object", map |-> map]
JsonArray(elems) == [kind |-> "array", elems |-> elems]
JsonString(subs) == [kind |-> "string", subs |-> subs]
JsonScalar == [kind |-> "scalar"]

\* key not in config, or the TypeError of the test.
not_in(key, cfg) ==
    CASE cfg.kind = "object" -> [error |-> None, value |-> key \notin DOMAIN cfg.map]
      [] cfg.kind = "array" -> [error |-> None, value |-> key \notin cfg.elems]
      [] cfg.kind = "string" -> [error |-> None, value |-> key \notin cfg.subs]
      [] OTHER -> [error |-> "TypeError", value |-> FALSE]

\* config[key] = value, or the TypeError of the assignment.
setitem(cfg, key, value) ==
    IF cfg.kind = "object"
    THEN [error |-> None,
          value |-> JsonObject([k \in DOMAIN cfg.map \cup {key} |->
                                  IF k = key THEN value ELSE cfg.map[k]])]
    ELSE [error |-> "TypeError", value |-> cfg]

\* The loop that merges the defaults into the parsed config, from the i-th
\* key on.
RECURSIVE merge_defaults(_, _)
merge_defaults(cfg, i) ==
    IF i > Len(ConfigKeys) THEN [error |-> None, value |-> cfg]
    ELSE Let(not_in(ConfigKeys[i], cfg), LAMBDA absent :
         IF absent.error # None THEN [error |-> absent.error, value |-> cfg]
         ELSE IF ~absent.value THEN merge_defaults(cfg, i + 1)
         ELSE Let(setitem(cfg, ConfigKeys[i], default_config[ConfigKeys[i]]), LAMBDA set :
              IF set.error # None THEN set ELSE merge_defaults(set.value, i + 1)))

\* What the try block of load_config does with config.json: it returns a
\* value, raises, or falls through (the file does not exist).
load_config_try(file) ==
    CASE file.kind = "missing" -> [error |-> None, returned |-> FALSE, value |-> None]
      [] file.kind = "unreadable" -> [error |-> "OSError", returned |-> FALSE, value |-> None]
      [] file.kind = "bad_json" -> [error |-> "JSONDecodeError", returned |-> FALSE, value |-> None]
      [] OTHER -> Let(merge_defaults(file.json, 1), LAMBDA merged :
                  [error |-> merged.error, returned |-> merged.error = None,
                   value |-> merged.value])

\* EinkReader.load_config(): every Exception of the try block is logged and
\* default_config returned.
load_config(file) ==
    Let(load_config_try(file), LAMBDA try :
        [error |-> None,
         value |-> IF try.error = None /\ try.returned THEN try.value
                   ELSE JsonObject(default_config)])

\* A value stored in config.json.
Stored == "stored"

\* The members a stored object may have besides the recognised keys.
ExtraKeys == {"extra"}

JsonValues ==
    { JsonObject([k \in keys |-> Stored]) : keys \in SUBSET (KeySet \cup ExtraKeys) }
    \cup { JsonArray(elems) : elems \in SUBSET KeySet }
    \cup { JsonString(subs) : subs \in SUBSET KeySet }
    \cup { JsonScalar }

ConfigFiles ==
    { [kind |-> "missing"], [kind |-> "unreadable"], [kind |-> "bad_json"] }
    \cup { [kind |-> "json", json |-> v] : v \in JsonValues }

InitConfig ==
    /\ IdlePaginate
    /\ IdleBook
    /\ IdleReader
    /\ IdleLoop
    /\ IdleBox
    /\ IdleBoot
    /\ config_file \in ConfigFiles
    /\ loaded = [kind |-> "none"]

\* self.config = self.load_config()
LoadConfig ==
    /\ loaded.kind = "none"
    /\ \E r \in {load_config(config_file)} :
          loaded' = [kind |-> "returned", error |-> r.error, value |-> r.value]
    /\ UNCHANGED << config_file, pagVars, bookVars, readerVars, loopVars, boxVars, bootVars >>

NextConfig == LoadConfig

SpecConfig == InitConfig /\ [][NextConfig]_vars

\* ----------------------------------------------------------- SpecTextBox
\* Texts handed to draw_text_box: up to MaxBoxTextLen characters.
MaxBoxTextLen == 5
\* Box widths 1..MaxBoxWidth and heights 0..MaxBoxHeight, in the unit of the
\* text measure.
MaxBoxWidth == 3
MaxBoxHeight == 3
\* line_height, int(height of the font's sample text * line_spacing), of the
\* fonts and spacings of a session.
LineHeights == {1, 2}

Ellipsis == << ".", ".", "." >>

\* text.split(' '), scanning from position i with the current word starting
\* at position start: one word per blank, empty words included.
RECURSIVE SplitBlanks(_, _, _)
SplitBlanks(t, start, i) ==
    IF i > Len(t) THEN << SubSeq(t, start, Len(t)) >>
    ELSE IF t[i] = SP
         THEN << SubSeq(t, start, i - 1) >> \o SplitBlanks(t, i + 1, i + 1)
         ELSE SplitBlanks(t, start, i + 1)

split_blank(t) == SplitBlanks(t, 1, 1)

\* The rows a string is drawn in: it breaks at its newlines.
RECURSIVE Rows(_, _, _)
Rows(t, start, i) ==
    IF i > Len(t) THEN << SubSeq(t, start, Len(t)) >>
    ELSE IF t[i] = NL
         THEN << SubSeq(t, start, i - 1) >> \o Rows(t, i + 1, i + 1)
         ELSE Rows(t, start, i + 1)

\* bbox[2] - bbox[0] of temp_draw.textbbox((0, 0), line, font=font): the
\* width of the widest row, every character one unit wide.
text_width(line) ==
    LET rows == Rows(line, 1, 1)
    IN  SetMax({Len(rows[i]) : i \in 1..Len(rows)})

\* One turn of the wrapping loop over the word, on the loop's locals
\* st = [lines, current_line].
WrapStep(st, word, width) ==
    LET test_line == strip(st.current_line \o << SP >> \o word)
    IN  IF text_width(test_line) <= width \/ st.current_line = << >>
        THEN [st EXCEPT !.current_line = test_line]
        ELSE [lines |-> Append(st.lines, st.current_line),
              current_line |-> word]

RECURSIVE WrapLoop(_, _, _)
WrapLoop(st, words, width) ==
    IF words = << >> THEN st
    ELSE WrapLoop(WrapStep(st, Head(words), width), Tail(words), width)

\* The wrapped lines: the loop, then the last line if it is not empty.
wrap(t, width) ==
    LET st == WrapLoop([lines |-> << >>, current_line |-> << >>],
                       split_blank(t), width)
    IN  IF st.current_line # << >> THEN Append(st.lines, st.current_line)
        ELSE st.lines

\* s[:-3]
DropLast3(s) == IF Len(s) > 3 THEN SubSeq(s, 1, Len(s) - 3) ELSE << >>

\* lines[:n] for n >= 0
FirstLines(lines, n) == IF n >= Len(lines) THEN lines ELSE SubSeq(lines, 1, n)

\* The cropping of the wrapped lines to max_lines: the lines kept, or the
\* exception raised (lines[-1] of an empty list).
crop(lines, max_lines) ==
    IF Len(lines) > max_lines
    THEN LET kept == FirstLines(lines, max_lines)
         IN  IF Len(kept) >= max_lines
             THEN IF kept = << >>
                  THEN [lines |-> kept, error |-> "IndexError"]
                  ELSE [lines |-> [kept EXCEPT ![Len(kept)] =
                                       DropLast3(@) \o Ellipsis],
                        error |-> None]
             ELSE [lines |-> kept, error |-> None]
    ELSE [lines |-> lines, error |-> None]

\* draw_text_box(text, x, y, width, height) with the font's line_height:
\* the lines drawn on the image and the count returned, or the exception.
draw_text_box(t, width, height, line_height) ==
    LET max_lines == height \div line_height
        c == crop(wrap(t, width), max_lines)
    IN  IF c.error # None
        THEN [kind |-> "raised", error |-> c.error, lines |-> << >>, count |-> 0]
        ELSE [kind |-> "returned", error |-> None, lines |-> c.lines,
              count |-> Len(c.lines)]

InitTextBox ==
    /\ IdlePaginate
    /\ IdleBook
    /\ IdleReader
    /\ IdleLoop
    /\ IdleConfig
    /\ IdleBoot
    /\ box \in [text : SeqsUpTo(Chars, MaxBoxTextLen),
                width : 1..MaxBoxWidth,
                height : 0..MaxBoxHeight,
                line_height : LineHeights]
    /\ drawn = [kind |-> "none"]

\* image, lines_used = draw_text_box(text, x, y, width, height)
DrawTextBox ==
    /\ drawn.kind = "none"
    /\ drawn' = draw_text_box(box.text, box.width, box.height, box.line_height)
    /\ UNCHANGED << box, pagVars, bookVars, readerVars, loopVars, cfgVars, bootVars >>

NextTextBox == DrawTextBox

SpecTextBox == InitTextBox /\ [][NextTextBox]_vars

\* -------------------------------------------------------------- SpecLoop
\* LONG_PRESS_TIME (1.0 s) and the 0.1 s window of BUTTON_LONG_HOLD, counted
\* in polls of the 10 ms poller (100 and 10 polls) and scaled down.
LongPressPolls == 2
HoldWindowPolls == 1

\* The presses of a session.
MaxPresses == 2

\* The buttons in the order of the button_pins dict.
ButtonOrder == << "PREV", "NEXT", "HOME", "MENU" >>

\* An event of the queue: its type, the button it is about and its second
\* member, the button name or the tuple (name, press_duration).
Event(type, name, button) == [type |-> type, name |-> name, button |-> button]

\* The tuple (name, press_duration) that BUTTON_LONG_PRESS and
\* BUTTON_LONG_HOLD carry; it equals no button name.
DurationTuple(name) == "(" \o name \o ", press_duration)"

\* monitor_button with a long press reported while the button is still held,
\* and again at its release.
monitor_button_LongWhileHeld(name, pressed, was_pressed, press_duration) ==
    IF pressed # was_pressed
    THEN IF pressed
         THEN << Event("BUTTON_DOWN", name, name) >>
         ELSE << Event("BUTTON_UP", name, name),
                 IF press_duration < LongPressPolls
                 THEN Event("BUTTON_CLICK", name, name)
                 ELSE Event("BUTTON_LONG_PRESS", name, DurationTuple(name)) >>
    ELSE IF /\ pressed
            /\ press_duration >= LongPressPolls
            /\ press_duration < LongPressPolls + HoldWindowPolls
         THEN << Event("BUTTON_LONG_PRESS", name, DurationTuple(name)) >>
         ELSE << >>

\* What one poll appends for one button, given its state now, its state at
\* the last poll and the polls since its press_time.
monitor_button(name, pressed, was_pressed, press_duration) ==
    IF pressed # was_pressed
    THEN IF pressed
         THEN << Event("BUTTON_DOWN", name, name) >>
         ELSE << Event("BUTTON_UP", name, name),
                 IF press_duration < LongPressPolls
                 THEN Event("BUTTON_CLICK", name, name)
                 ELSE Event("BUTTON_LONG_PRESS", name, DurationTuple(name)) >>
    ELSE IF /\ pressed
            /\ press_duration >= LongPressPolls
            /\ press_duration < LongPressPolls + HoldWindowPolls
         THEN << Event("BUTTON_LONG_HOLD", name, DurationTuple(name)) >>
         ELSE << >>

\* One iteration of the loop of GPIOController._monitor_buttons with the
\* button down held down: the controller after it, the events it appends in
\* pending.
monitor_buttons(g, down) ==
    LET cap == LongPressPolls + HoldWindowPolls
        press_duration == IF g.seen = None THEN 0
                          ELSE IF g.held + 1 < cap THEN g.held + 1 ELSE cap
        of(i) == monitor_button(ButtonOrder[i], down = ButtonOrder[i],
                                g.seen = ButtonOrder[i], press_duration)
    IN  [g EXCEPT !.seen = down,
                  !.held = IF down = g.seen THEN press_duration ELSE 0,
                  !.pending = of(1) \o of(2) \o of(3) \o of(4)]

\* The events process_events hands to the controller.
IsHanded(e) == e.type \in {"BUTTON_CLICK", "BUTTON_LONG_PRESS"}

\* The controller's variables keep their values.
ControllerUnchanged == UNCHANGED << readerVars, bm, sidecar >>

\* A button is pressed, the held button is released.
Press ==
    \E b \in Buttons :
        /\ pins.down = None
        /\ pins.presses < MaxPresses
        /\ pins' = [down |-> b, presses |-> pins.presses + 1]
        /\ ControllerUnchanged
        /\ UNCHANGED << gpio, main, log, pagVars, last, cfgVars, boxVars, bootVars >>

Release ==
    /\ pins.down # None
    /\ pins' = [pins EXCEPT !.down = None]
    /\ ControllerUnchanged
    /\ UNCHANGED << gpio, main, log, pagVars, last, cfgVars, boxVars, bootVars >>

\* The poller thread reads the buttons.
Poll ==
    /\ gpio.running
    /\ gpio.pending = << >>
    /\ gpio' = monitor_buttons(gpio, pins.down)
    /\ gpio' # gpio
    /\ ControllerUnchanged
    /\ UNCHANGED << pins, main, log, pagVars, last, cfgVars, boxVars, bootVars >>

\* self.event_queue.append(...) of the poller thread.
PollerAppend ==
    /\ gpio.pending # << >>
    /\ LET e == Head(gpio.pending)
       IN  /\ gpio' = [gpio EXCEPT !.event_queue = Append(@, e), !.pending = Tail(@)]
           /\ log' = [log EXCEPT !.appended = Append(@, e),
                                  !.enqueued = IF IsHanded(e) THEN Append(@, e) ELSE @]
    /\ ControllerUnchanged
    /\ UNCHANGED << pins, main, pagVars, last, cfgVars, boxVars, bootVars >>

\* while self.running: of EinkReader.run
LoopTest ==
    /\ main.pc = "loop"
    /\ main' = [main EXCEPT !.pc = IF running THEN "drain" ELSE "cleanup"]
    /\ ControllerUnchanged
    /\ UNCHANGED << gpio, pins, log, pagVars, last, cfgVars, boxVars, bootVars >>

\* events.append(self.event_queue.popleft()) of GPIOController.get_events
PopLeft ==
    /\ main.pc = "drain"
    /\ gpio.event_queue # << >>
    /\ gpio' = [gpio EXCEPT !.event_queue = Tail(@)]
    /\ main' = [main EXCEPT !.batch = Append(@, Head(gpio.event_queue))]
    /\ ControllerUnchanged
    /\ UNCHANGED << pins, log, pagVars, last, cfgVars, boxVars, bootVars >>

\* get_events finds the queue empty and returns the events it took.
EndDrain ==
    /\ main.pc = "drain"
    /\ gpio.event_queue = << >>
    /\ main' = [main EXCEPT !.pc = "process"]
    /\ ControllerUnchanged
    /\ UNCHANGED << gpio, pins, log, pagVars, last, cfgVars, boxVars, bootVars >>

\* One turn of the for loop of process_events. An exception of a handler
\* leaves process_events and the loop of run(), whose finally clause runs
\* cleanup().
ProcessEvent ==
    /\ main.pc = "process"
    /\ main.batch # << >>
    /\ LET e == Head(main.batch)
       IN  /\ \E s \in {Fresh} :
              \E s2 \in { CASE e.type = "BUTTON_CLICK" -> handle_button(s, e.button)
                            [] e.type = "BUTTON_LONG_PRESS" -> handle_button_long(s, e.button)
                            [] OTHER -> AppState } :
                  /\ Becomes(s2)
                  /\ main' = [main EXCEPT !.batch = Tail(@),
                                          !.pc = IF s2.tr.error # None THEN "cleanup" ELSE @]
           /\ ev' = CASE e.type = "BUTTON_CLICK" ->
                            [via |-> "click", button |-> e.button,
                             type |-> IF e.button \in DOMAIN button_events
                                      THEN button_events[e.button] ELSE None,
                             data |-> NoData, screen |-> current_screen]
                      [] e.type = "BUTTON_LONG_PRESS" ->
                            [via |-> "long", button |-> e.button,
                             type |-> IF e.button = "HOME" THEN "EXIT" ELSE None,
                             data |-> NoData, screen |-> current_screen]
                      [] OTHER -> ev
           /\ log' = [log EXCEPT !.handed = IF IsHanded(e) THEN Append(@, e) ELSE @]
    /\ UNCHANGED << gpio, pins, pagVars, last, cfgVars, boxVars, bootVars >>

\* The batch is done: time.sleep(0.05), then the loop test again.
EndProcess ==
    /\ main.pc = "process"
    /\ main.batch = << >>
    /\ main' = [main EXCEPT !.pc = "loop"]
    /\ ControllerUnchanged
    /\ UNCHANGED << gpio, pins, log, pagVars, last, cfgVars, boxVars, bootVars >>

\* The frame of a cleared panel.
Cleared == [screen |-> "cleared", book |-> None, page |-> 0, selected |-> 0]

\* EinkReader.cleanup(): the poller is stopped, the panel cleared and put to
\* sleep, the config saved.
Cleanup ==
    /\ main.pc = "cleanup"
    /\ main' = [main EXCEPT !.pc = "done", !.teardowns = @ + 1]
    /\ gpio' = [gpio EXCEPT !.running = FALSE]
    /\ shown' = IF panel_ok THEN Cleared ELSE shown
    /\ disk' = config
    /\ UNCHANGED << running, current_screen, config, home, reading, menu, books_dir,
                    panel_ok, tr, ev, bm, sidecar >>
    /\ UNCHANGED << pins, log, pagVars, last, cfgVars, boxVars, bootVars >>

\* The session at the top of the loop of run(): the controller initialized
\* and its first screen shown, the poller started, no button touched yet.
LoopStart ==
    /\ gpio = [event_queue |-> << >>, seen |-> None, held |-> 0, pending |-> << >>,
               running |-> TRUE]
    /\ pins = [down |-> None, presses |-> 0]
    /\ main = [pc |-> "loop", batch |-> << >>, teardowns |-> 0]
    /\ log = [appended |-> << >>, enqueued |-> << >>, handed |-> << >>]

InitLoop ==
    /\ IdlePaginate
    /\ IdleConfig
    /\ IdleBox
    /\ IdleBoot
    /\ last = NoCall
    /\ ev = NoEvent
    /\ LoopStart
    /\ \E cfg \in MenuConfigs, fs \in SidecarChoices :
       \E s \in {Let(initialize(cfg, fs, Shelf), LAMBDA s0 : run_start(s0))} : StartsAs(s)

MainThread == LoopTest \/ PopLeft \/ EndDrain \/ ProcessEvent \/ EndProcess \/ Cleanup

NextLoop == Press \/ Release \/ Poll \/ PollerAppend \/ MainThread

SpecLoop == InitLoop /\ [][NextLoop]_vars

\* ------------------------------------------------------------ SpecPoller
\* The poller thread alone, from start_monitoring() on: nothing drains the
\* queue.
InitPoller ==
    /\ IdlePaginate
    /\ IdleBook
    /\ IdleReader
    /\ IdleConfig
    /\ IdleBox
    /\ IdleBoot
    /\ gpio = [event_queue |-> << >>, seen |-> None, held |-> 0, pending |-> << >>,
               running |-> TRUE]
    /\ pins = [down |-> None, presses |-> 0]
    /\ main = [pc |-> "none", batch |-> << >>, teardowns |-> 0]
    /\ log = [appended |-> << >>, enqueued |-> << >>, handed |-> << >>]

NextPoller == Press \/ Release \/ Poll \/ PollerAppend

SpecPoller == InitPoller /\ [][NextPoller]_vars

\* --------------------------------------------------------------- SpecRun
\* The events an event source may put in the queue.
MaxArrivals == 3

\* get_events() of an event source whose events are the pairs
\* (event_type, button) that process_events unpacks, the second member the
\* name of the button.
Arrive ==
    \E type \in {"BUTTON_CLICK", "BUTTON_LONG_PRESS"}, b \in Buttons :
        /\ gpio.running
        /\ Len(log.enqueued) < MaxArrivals
        /\ gpio' = [gpio EXCEPT !.event_queue = Append(@, Event(type, b, b))]
        /\ log' = [log EXCEPT !.appended = Append(@, Event(type, b, b)),
                               !.enqueued = Append(@, Event(type, b, b))]
        /\ ControllerUnchanged
        /\ UNCHANGED << pins, main, pagVars, last, cfgVars, boxVars, bootVars >>

NextRun == Arrive \/ MainThread

SpecRun == InitLoop /\ [][NextRun]_vars

\* ----------------------------------------------------------- SpecStartup
\* The controller as EinkReader.__init__ leaves it, for every persisted
\* config: running, no active screen, the config read from config.json,
\* nothing constructed and nothing on the panel.
InitStartup ==
    /\ IdlePaginate
    /\ IdleLoop
    /\ IdleConfig
    /\ IdleBox
    /\ IdleBoot
    /\ last = NoCall
    /\ ev = NoEvent
    /\ running = TRUE
    /\ current_screen = None
    /\ disk \in PersistedConfigs
    /\ config = disk
    /\ bm = NewBookManager
    /\ sidecar \in SidecarChoices
    /\ books_dir \in BookDirs
    /\ home = NewHome
    /\ reading = NewReading
    /\ menu = NewMenu
    /\ shown = Cleared
    /\ panel_ok = TRUE
    /\ tr = NoTrace

\* initialize() and the first show_current_screen() of run(); the event
\* recorded carries the page the config file held.
Startup ==
    /\ ev = NoEvent
    /\ Given("startup", None, None, IntData(disk.current_page))
    /\ \E s \in {Let(initialize(disk, sidecar, books_dir), LAMBDA s0 : run_start(s0))} :
          Becomes(s)
    /\ UNCHANGED << pagVars, last, loopVars, cfgVars, boxVars, bootVars >>

\* The events of the session that follows.
StartedClick == ev # NoEvent /\ Click

StartedDispatch == ev # NoEvent /\ Dispatch

NextStartup == Startup \/ StartedClick \/ StartedDispatch

SpecStartup == InitStartup /\ [][NextStartup]_vars

\* ----------------------------------------------------------- SpecDisplay
\* The screen_type values of a config: the two panels init_display knows and
\* another one.
ScreenTypes == {"7in5", "7in5_V2", "2in13"}

\* The names init_display assigns to without declaring them global (its
\* locals): e, bound by the except clause, and HAS_REAL_DRIVER, assigned in
\* the except branch.
init_display_locals == {"e", "HAS_REAL_DRIVER"}

\* EinkDisplay.init_display() on a machine whose driver module was imported
\* or not (the module's HAS_REAL_DRIVER) and whose panel initialises or not:
\* the epd it sets, or the exception it raises. A name assigned anywhere in
\* the function is local in all of it, so reading it before an assignment
\* raises UnboundLocalError.
init_display(d) ==
    IF "HAS_REAL_DRIVER" \in init_display_locals
    THEN [epd |-> None, error |-> "UnboundLocalError"]
    ELSE IF /\ d.has_real_driver
            /\ d.screen_type \in {"7in5", "7in5_V2"}
            /\ d.epd_init_ok
         THEN [epd |-> "EPD", error |-> None]
         ELSE [epd |-> "MockEPD", error |-> None]

\* EinkDisplay(screen_type): __init__ calls init_display().
EinkDisplay(d) == init_display(d)

\* EinkReader.initialize() from the controller s that __init__ left: the
\* display is constructed first; an exception is caught and logged, the
\* error page is shown if there is a display, and False is returned.
EinkReader_initialize(s, d) ==
    Let(EinkDisplay(d),
        LAMBDA disp :
            IF disp.error # None
            THEN [s |-> s, ok |-> FALSE, epd |-> None, error |-> disp.error]
            ELSE [s |-> initialize(s.config, s.sidecar, s.books_dir), ok |-> TRUE,
                  epd |-> disp.epd, error |-> None])

\* The controller as __init__ leaves it, on a machine with or without the
\* real driver, whose panel initialises or not.
InitDisplay ==
    /\ IdlePaginate
    /\ IdleLoop
    /\ IdleConfig
    /\ IdleBox
    /\ last = NoCall
    /\ ev = NoEvent
    /\ running = TRUE
    /\ current_screen = None
    /\ disk \in PersistedConfigs
    /\ config = disk
    /\ bm = NewBookManager
    /\ sidecar \in SidecarChoices
    /\ books_dir \in BookDirs
    /\ home = NewHome
    /\ reading = NewReading
    /\ menu = NewMenu
    /\ shown = Cleared
    /\ panel_ok = TRUE
    /\ tr = NoTrace
    /\ driver \in [has_real_driver : BOOLEAN, epd_init_ok : BOOLEAN,
                   screen_type : ScreenTypes]
    /\ boot = [kind |-> "none"]

\* display = EinkDisplay(screen_type)
Construct ==
    /\ boot.kind = "none"
    /\ \E disp \in {EinkDisplay(driver)} :
          boot' = [kind |-> "constructed", ok |-> disp.error = None,
                   epd |-> disp.epd, error |-> disp.error]
    /\ UNCHANGED << driver, pagVars, bookVars, readerVars, loopVars, cfgVars, boxVars >>

\* reader.initialize() of main()
Initialize ==
    /\ boot.kind = "none"
    /\ \E r \in {EinkReader_initialize(AppState, driver)} :
          /\ boot' = [kind |-> "initialized", ok |-> r.ok, epd |-> r.epd,
                      error |-> r.error]
          /\ Becomes(r.s)
    /\ UNCHANGED << driver, ev, last, pagVars, loopVars, cfgVars, boxVars >>

NextDisplay == Construct \/ Initialize

SpecDisplay == InitDisplay /\ [][NextDisplay]_vars

\* ----------------------------------------------- claims on the controller
\* C1: after a click of HOME is dispatched, Home is the active screen; after
\* a click of MENU is dispatched, Menu is the active screen.
C1_ClickShowsHomeOrMenu ==
    ev.via = "click" =>
        /\ ev.button = "HOME" => current_screen = "home"
        /\ ev.button = "MENU" => current_screen = "menu"

\* C2: the chain of commands that follows any one event is finite: no
\* dispatch recurses without end.
C2_DispatchTerminates == tr.error # "RecursionError"

\* The last event was one of types, given while Reading was active.
PageEvent(types) == ev.type \in types /\ ev.screen = "reading"

\* C7: after a NextPage or PrevPage that changed the current page while
\* Reading is active, the Reading screen has been rendered again and the
\* panel shows the new current page.
C7_PageChangeIsRendered ==
    [][ PageEvent({"NEXT_PAGE", "PREV_PAGE"})' /\ bm'.current_page # bm.current_page
            => /\ tr'.renders >= 1
               /\ shown'.screen = "reading"
               /\ shown'.book = bm'.current_book_path
               /\ shown'.page = bm'.current_page ]_vars

\* The page the event e asks for is a page of the book b.
PageChangeSucceeds(b, e) ==
    LET target == CASE e.type = "NEXT_PAGE" -> b.current_page + 1
                    [] e.type = "PREV_PAGE" -> b.current_page - 1
                    [] OTHER -> e.data.n
    IN  /\ e.type = "GOTO_PAGE" => e.data.kind = "int"
        /\ 0 <= target /\ target < b.total_pages

\* C8: after a successful page change made through the Reading screen the
\* config's current_page is the BookManager's, and the config was saved
\* exactly once, with that page.
C8_PageChangeIsSavedOnce ==
    [][ PageEvent({"NEXT_PAGE", "PREV_PAGE", "GOTO_PAGE"})' /\ PageChangeSucceeds(bm, ev')
            => /\ config'.current_page = bm'.current_page
               /\ tr'.saves = 1
               /\ disk' = config'
               /\ disk'.current_page = bm'.current_page ]_vars

\* A next page or go-to-page that succeeded and left the cursor past page 0.
C8_Witness ==
    /\ PageEvent({"NEXT_PAGE", "GOTO_PAGE"})
    /\ tr.emitted = << "SAVE_CONFIG" >>
    /\ bm.current_page >= 1

\* The event e is NextPage on the last page of b (or with no page), or
\* PrevPage on the first.
AtBoundary(b, e) ==
    \/ e.type = "NEXT_PAGE" /\ b.current_page + 1 >= b.total_pages
    \/ e.type = "PREV_PAGE" /\ b.current_page = 0

\* C9: NextPage at the last page and PrevPage at the first (or with no page
\* to show) change nothing: the cursor, the config, need_refresh, config.json
\* and every other part of the state are as before, no command is emitted
\* and nothing is saved.
C9_BoundaryIsNoOp ==
    [][ PageEvent({"NEXT_PAGE", "PREV_PAGE"})' /\ AtBoundary(bm, ev')
            => /\ bm' = bm
               /\ config' = config
               /\ reading' = reading
               /\ disk' = disk
               /\ tr'.emitted = << >>
               /\ tr'.saves = 0
               /\ UNCHANGED << running, current_screen, home, menu, shown, sidecar,
                               books_dir, panel_ok >> ]_vars

\* NextPage was given on the last page of a book of several pages.
C9_Witness ==
    /\ PageEvent({"NEXT_PAGE"})
    /\ tr.emitted = << >>
    /\ bm.total_pages >= 2
    /\ bm.current_page = bm.total_pages - 1

\* C12: Select on the Menu screen with Back highlighted makes Reading the
\* active screen when a book is loaded and Home when none is.
C12_BackLeavesMenu ==
    [][ ev'.type = "SELECT" /\ ev'.screen = "menu" /\ menu_items[menu.selected_index + 1] = "BACK"
            => IF bm.current_book_path # None
               THEN current_screen' = "reading"
               ELSE current_screen' = "home" ]_vars

\* The frame EinkDisplay.show_error draws.
ErrorPage == [screen |-> "error", book |-> None, page |-> 0, selected |-> 0]

\* The need_refresh flag of the active screen.
ActiveNeedsRefresh ==
    CASE current_screen = "home" -> home.need_refresh
      [] current_screen = "reading" -> reading.need_refresh
      [] current_screen = "menu" -> menu.need_refresh
      [] OTHER -> FALSE

\* C17: when the panel refuses a frame the process goes on and the screen
\* stays marked as needing a refresh, so that it is rendered again.
C17_FailedFrameIsRetried ==
    [][ tr'.failed > 0
            => /\ tr'.error = None
               /\ running' = running
               /\ ActiveNeedsRefresh' ]_vars

\* C18: when the book of a LoadBook command cannot be loaded (missing file,
\* unsupported format) the main loop keeps running and the panel shows an
\* error page.
C18_FailedLoadShowsErrorPage ==
    [][ /\ ev'.type = "LOAD_BOOK" /\ ev'.data.kind = "path"
        /\ ~load_book(bm, ev'.data.path, sidecar[ev'.data.path]).ok
            => /\ tr'.error = None
               /\ running' = running
               /\ shown' = ErrorPage ]_vars

\* The book the highlighted row of Home names, None when the list has no
\* such row.
SelectedBook(h) ==
    IF 0 <= h.selected_index /\ h.selected_index < Len(h.books)
    THEN h.books[h.selected_index + 1] ELSE None

InChain(e, t) == \E i \in DOMAIN t.chain : t.chain[i] = e

\* The BookManager b holds a book that load_book loaded.
HoldsLoadedBook(b) ==
    /\ b.current_book_path \in ExistingBooks
    /\ suffix(b.current_book_path) \in {".txt", ".epub", ".pdf"}
    /\ b.total_pages = Len(b.pages)

\* No event makes the active screen's own handler change the active screen.
ScreenHandlerKeepsActiveScreen ==
    \A e \in DirectEvents \cup { << button_events[b], NoData >> : b \in Buttons }
                          \cup { << "EXIT", NoData >>, << "SHOW_READING", NoData >> } :
        \E s \in {Fresh} :
            screen_handle_event(s, e[1], e[2]).s.current_screen = current_screen

\* C23: init_screens makes Home the active screen, and the active screen is
\* always one of Home, Reading, Menu; a dispatch changes it only to Home while
\* it applies SHOW_HOME, to Menu while it applies SHOW_MENU, or to Reading
\* while it applies a LOAD_BOOK that succeeds (as the load of the last-read
\* book at startup does); no screen's handler changes it.
C23_ActiveScreenChangesOnlyByCommand ==
    /\ [](/\ \A cfg \in PersistedConfigs, fs \in SidecarChoices, dir \in BookDirs :
                NewReader(cfg, fs, dir).current_screen = "home"
          /\ current_screen \in {"home", "reading", "menu"}
          /\ ev = NoEvent /\ current_screen # "home"
                => current_screen = "reading" /\ HoldsLoadedBook(bm)
                       /\ config.current_book = bm.current_book_path
          /\ ScreenHandlerKeepsActiveScreen)
    /\ [][ current_screen' # current_screen
             => \/ current_screen' = "home" /\ InChain("SHOW_HOME", tr')
                \/ current_screen' = "menu" /\ InChain("SHOW_MENU", tr')
                \/ /\ current_screen' = "reading"
                   /\ InChain("LOAD_BOOK", tr')
                   /\ HoldsLoadedBook(bm')
                   /\ config'.current_book = bm'.current_book_path ]_vars

\* Home was active and a LOAD_BOOK made Reading the active screen.
C23_Witness ==
    /\ ev.screen = "home"
    /\ current_screen = "reading"
    /\ InChain("LOAD_BOOK", tr)
    /\ tr.error = None

\* The frame the active screen renders.
ActiveFrame ==
    CASE current_screen = "home" ->
            [screen |-> "home", book |-> None, page |-> home.current_page,
             selected |-> home.selected_index]
      [] current_screen = "menu" ->
            [screen |-> "menu", book |-> None, page |-> 0, selected |-> menu.selected_index]
      [] OTHER ->
            IF /\ bm.current_book_path # None
               /\ 0 <= bm.current_page /\ bm.current_page < Len(bm.pages)
            THEN [screen |-> "reading", book |-> bm.current_book_path,
                  page |-> bm.current_page, selected |-> 0]
            ELSE [screen |-> "reading", book |-> None, page |-> 0, selected |-> 0]

\* The step is a dispatch in which the controller applied SHOW_HOME or
\* SHOW_MENU, or a LOAD_BOOK whose load succeeded, and which no exception
\* ended.
SwitchApplied ==
    /\ tr'.error = None
    /\ \/ InChain("SHOW_HOME", tr')
       \/ InChain("SHOW_MENU", tr')
       \/ /\ ev'.type = "LOAD_BOOK" /\ ev'.data.kind = "path"
          /\ load_book(bm, ev'.data.path, sidecar[ev'.data.path]).ok
       \/ /\ ev'.type = "SELECT" /\ ev'.screen = "home"
          /\ SelectedBook(home) # None
          /\ load_book(bm, SelectedBook(home), sidecar[SelectedBook(home)]).ok

\* C25: after a dispatch in which the controller switched the active screen
\* (SHOW_HOME, SHOW_MENU, or a LOAD_BOOK that succeeded) the panel shows the
\* frame of the active screen, also when that screen had been rendered
\* before and when another book was displayed.
C25_SwitchedScreenIsShown ==
    [][ SwitchApplied => shown' = ActiveFrame' ]_vars

\* C27: with clicks and long presses as the only input, handle_event is first
\* entered with PREV_PAGE, NEXT_PAGE, SHOW_HOME, SHOW_MENU or EXIT and never,
\* at any depth, with UP, DOWN, SELECT or LOAD_BOOK; the selected_index of
\* Home and of Menu keep their initial value, no screen emits LOAD_BOOK, and
\* Reading does not become the active screen of a session that did not start
\* on it.
C27_ButtonsNeverSelect ==
    /\ [](/\ tr.chain # << >>
               => tr.chain[1] \in {"PREV_PAGE", "NEXT_PAGE", "SHOW_HOME", "SHOW_MENU", "EXIT"}
          /\ \A e \in {"UP", "DOWN", "SELECT", "LOAD_BOOK"} : ~InChain(e, tr)
          /\ \A i \in DOMAIN tr.emitted : tr.emitted[i] # "LOAD_BOOK"
          /\ home.selected_index = NewHome.selected_index
          /\ menu.selected_index = NewMenu.selected_index)
    /\ [][ /\ current_screen # "reading" => current_screen' # "reading"
           /\ bm'.current_book_path = bm.current_book_path ]_vars

\* NEXT was clicked on a Home screen that lists books, in a session without
\* a saved book; Home is still active and nothing is loaded.
C27_Witness ==
    /\ ev.via = "click" /\ ev.button = "NEXT" /\ ev.screen = "home"
    /\ tr.chain = << "NEXT_PAGE" >>
    /\ Len(home.books) > 0
    /\ config.current_book = None
    /\ current_screen = "home"
    /\ bm.current_book_path = None

\* ----------------------------------------------- claims on the Home list
\* The list-page that holds the item of index i.
ListPageOf(i) == i \div items_per_page

\* HomeScreen.handle_event takes the event e.
HomeTakes(e) == ev'.via = "screen" /\ ev'.type = e

\* The selection goes from the last item of a list-page to the first of the
\* next one, or from the first item of a list-page to the last of the one
\* before.
DownCrosses ==
    /\ HomeTakes("DOWN")
    /\ home.selected_index % items_per_page = items_per_page - 1
    /\ home'.selected_index = home.selected_index + 1

UpCrosses ==
    /\ HomeTakes("UP")
    /\ home.selected_index % items_per_page = 0
    /\ home'.selected_index = home.selected_index - 1

\* C22: a Down that moves the selection from the last item of list-page p to
\* the first of p+1 sets current_page to p+1, an Up that moves it from the
\* first item of p to the last of p-1 sets current_page to p-1; Up at index 0
\* and Down at the last book change nothing.
C22_SelectionFlipsListPage ==
    [][ /\ DownCrosses => home'.current_page = ListPageOf(home.selected_index) + 1
        /\ UpCrosses => home'.current_page = ListPageOf(home.selected_index) - 1
        /\ HomeTakes("UP") /\ home.selected_index = 0 => home' = home
        /\ HomeTakes("DOWN") /\ home.selected_index = Len(home.books) - 1 => home' = home
      ]_vars

\* The same, of the events taken while current_page is the list-page of the
\* selected item.
FlipsListPageWhenVisible ==
    [][ home.current_page = ListPageOf(home.selected_index)
        => /\ DownCrosses => home'.current_page = ListPageOf(home.selected_index) + 1
           /\ UpCrosses => home'.current_page = ListPageOf(home.selected_index) - 1
      ]_vars

\* The selected index and the list-page are those of the list.
HomeIndicesInRange ==
    LET n == Len(home.books)
    IN  /\ 0 <= home.selected_index /\ home.selected_index < n
        /\ 0 <= home.current_page
        /\ home.current_page < (n + items_per_page - 1) \div items_per_page

\* C28: over a non-empty book list, after any Up, Down, NextPage and PrevPage
\* events the selected item is on the visible list-page, the selected index
\* is an index of the list and current_page is one of its list-pages.
C28_SelectionIsVisible ==
    Len(home.books) > 0
        => /\ home.current_page * items_per_page <= home.selected_index
           /\ home.selected_index < (home.current_page + 1) * items_per_page
           /\ HomeIndicesInRange

\* ---------------------------------------------- claims on the BookManager
\* C3: in every state reached by load_book, next_page, prev_page, go_to_page
\* and goto_bookmark calls, 0 <= current_page < total_pages when the book has
\* pages, and current_page = 0 when it has none.
C3_CurrentPageInRange ==
    /\ bm.total_pages > 0 => 0 <= bm.current_page /\ bm.current_page < bm.total_pages
    /\ bm.total_pages = 0 => bm.current_page = 0

\* next_page refused on the last page of a book of several pages.
C3_Witness ==
    /\ last.op = "next_page" /\ ~last.ok
    /\ bm.total_pages >= 2
    /\ bm.current_page = bm.total_pages - 1

\* C10: after load_book succeeds for a book without a sidecar file, the
\* bookmark map is empty, whatever was loaded before.
C10_NoSidecarGivesEmptyBookmarks ==
    last.op = "load_book" /\ last.ok /\ ~sidecar[last.arg].exists
        => bm.bookmarks = NoBookmarks

\* C11: with a book loaded, add_bookmark without a name adds the bookmark
\* numbered (bookmarks before the call) + 1 at current_page, saves the map and
\* reports success; with a name the map already holds it replaces that entry
\* and the number of bookmarks stays the same.
C11_AddBookmarkInserts ==
    [][ last'.op = "add_bookmark" /\ bm.current_book_path # None
            => LET before == DOMAIN bm.bookmarks
                   name == IF last'.arg = None
                           THEN DefaultBookmarkName(Cardinality(before) + 1)
                           ELSE last'.arg
               IN  /\ last'.ok /\ last'.error = None
                   /\ DOMAIN bm'.bookmarks = before \cup {name}
                   /\ bm'.bookmarks[name].page = bm.current_page
                   /\ \A n \in before \ {name} : bm'.bookmarks[n] = bm.bookmarks[n]
                   /\ sidecar'[bm.current_book_path].exists
                   /\ sidecar'[bm.current_book_path].map = bm'.bookmarks ]_vars

C21_SavedBookmarksAreValidPages ==
    last.op \in {"save_bookmarks", "add_bookmark"} /\ last.ok
        => \A n \in DOMAIN sidecar[bm.current_book_path].map :
               LET p == sidecar[bm.current_book_path].map[n].page
               IN  0 <= p /\ p < bm.total_pages

\* C26: a load_book call that returns False leaves current_book_path, pages,
\* total_pages, current_page and bookmarks as they were before the call.
C26_FailedLoadChangesNothing ==
    [][ last'.op = "load_book" /\ ~last'.ok => bm' = bm ]_vars

\* The same, of the calls that name a file that does not exist.
MissingFileChangesNothing ==
    [][ last'.op = "load_book" /\ ~exists(last'.arg) => ~last'.ok /\ bm' = bm ]_vars

\* The name add_bookmark gives a bookmark added without one is not a name
\* of the map.
SynthesizedNameIsNew ==
    [][ last'.op = "add_bookmark" /\ last'.arg = None /\ bm.current_book_path # None
            => DefaultBookmarkName(Cardinality(DOMAIN bm.bookmarks) + 1)
                   \notin DOMAIN bm.bookmarks ]_vars

\* C33: add_bookmark without a name never overwrites a bookmark: whatever the
\* map holds, user-named entries included, the bookmarks it held are as they
\* were after the call and the map has exactly one bookmark more.
C33_UnnamedAddGrowsByOne ==
    [][ last'.op = "add_bookmark" /\ last'.arg = None /\ bm.current_book_path # None
            => /\ \A n \in DOMAIN bm.bookmarks :
                     n \in DOMAIN bm'.bookmarks /\ bm'.bookmarks[n] = bm.bookmarks[n]
               /\ Cardinality(DOMAIN bm'.bookmarks)
                     = Cardinality(DOMAIN bm.bookmarks) + 1 ]_vars

\* The bookmark map b.bookmarks holds name, with a page of the loaded book.
ValidBookmark(b, name) ==
    /\ name \in DOMAIN b.bookmarks
    /\ 0 <= b.bookmarks[name].page
    /\ b.bookmarks[name].page < b.total_pages

\* C35: goto_bookmark(name) returns True, with current_page set to the
\* bookmark's page, exactly when name is in the bookmark map and its page is a
\* page index of the loaded book; for an unknown name or a page out of range
\* it returns False and current_page is as before; the bookmark map (and the
\* rest of the BookManager) is as before in both cases.
C35_GotoBookmarkJumpsOrRefuses ==
    [][ last'.op = "goto_bookmark"
            => /\ last'.ok <=> ValidBookmark(bm, last'.arg)
               /\ last'.error = None
               /\ bm' = [bm EXCEPT !.current_page =
                                      IF ValidBookmark(bm, last'.arg)
                                      THEN bm.bookmarks[last'.arg].page ELSE @] ]_vars

\* goto_bookmark has jumped to the page of the bookmark m, away from page 0,
\* in a map that also holds a bookmark out of range.
C35_Witness ==
    /\ last.op = "goto_bookmark" /\ last.arg = "m" /\ last.ok
    /\ bm.current_page = bm.bookmarks["m"].page
    /\ bm.current_page > 0
    /\ "stale" \in DOMAIN bm.bookmarks
    /\ ~ValidBookmark(bm, "stale")

\* ------------------------------------------------ claims on the paginator
\* The non-empty trimmed paragraphs of a text, in order.
TrimmedParagraphs(t) ==
    LET ps == re_split(t)
    IN  SelectSeq([i \in 1..Len(ps) |-> strip(ps[i])], LAMBDA q : q # <<>>)

RECURSIVE Flatten(_)
Flatten(ss) == IF ss = <<>> THEN <<>> ELSE Head(ss) \o Flatten(Tail(ss))

RECURSIVE SumLen(_)
SumLen(ss) == IF ss = <<>> THEN 0 ELSE Len(Head(ss)) + SumLen(Tail(ss))

IsBlankText(t) == \A i \in 1..Len(t) : IsSpace(t[i])

\* The page holds one paragraph only, and that paragraph is over the budget.
SingleOverBudget(g) == Len(g) = 1 /\ Len(g[1]) > budget

\* C4: split_into_pages never returns an empty sequence; for the empty string
\* and for every whitespace-only text it returns exactly the placeholder page.
C4_BlankTextGivesPlaceholder ==
    called => /\ Len(result) >= 1
              /\ IsBlankText(text) => result = << Placeholder >>

\* C5 as stated: every returned page string, newline joiners included, is at
\* most budget characters long, unless it is a single over-budget paragraph.
C5_PageStringWithinBudget ==
    called => \A i \in 1..Len(result) :
                 Len(result[i]) <= budget \/ SingleOverBudget(groups[i])

\* C5 amended: the paragraph characters of every returned page (its length
\* minus the newline joiners between its paragraphs) are at most budget,
\* unless the page is a single over-budget paragraph.
C5_PageParagraphCharsWithinBudget ==
    called => \A i \in 1..Len(result) :
                 \/ /\ Len(result[i]) - (Len(groups[i]) - 1) <= budget
                    /\ SumLen(groups[i]) <= budget
                 \/ SingleOverBudget(groups[i])

\* A page of two paragraphs that fill the budget exactly, followed by another page.
C5_Witness ==
    /\ called
    /\ Len(result) >= 2
    /\ \E i \in 1..Len(result) :
          Len(groups[i]) >= 2 /\ SumLen(groups[i]) = budget /\ Len(result[i]) > budget

\* C6: for a text with at least one non-blank paragraph, the paragraphs held by
\* the returned pages, taken in page order, are exactly the non-empty trimmed
\* paragraphs of the text in their order, and each page is its paragraphs
\* joined by one newline.
C6_PagesReconstructParagraphs ==
    called /\ TrimmedParagraphs(text) # <<>> =>
        /\ Flatten(groups) = TrimmedParagraphs(text)
        /\ Len(result) = Len(groups)
        /\ \A i \in 1..Len(result) : groups[i] # <<>> /\ result[i] = join(<<NL>>, groups[i])
        /\ join(<<NL>>, result) = join(<<NL>>, TrimmedParagraphs(text))

\* Three paragraphs spread over two pages.
C6_Witness ==
    /\ called
    /\ Len(TrimmedParagraphs(text)) >= 3
    /\ Len(result) = 2

\* The lines of a text: its pieces between newlines.
RECURSIVE LinesOf(_)
LinesOf(t) ==
    IF \A i \in 1..Len(t) : t[i] # NL THEN << t >>
    ELSE LET i == CHOOSE k \in 1..Len(t) : t[k] = NL /\ \A j \in 1..(k - 1) : t[j] # NL
         IN  << SubSeq(t, 1, i - 1) >> \o LinesOf(SubSeq(t, i + 1, Len(t)))

\* The paragraphs of a sequence of lines: the runs of lines between blank
\* lines, each run joined by newlines; run is the run in progress.
RECURSIVE RunsOf(_, _)
RunsOf(lines, run) ==
    IF lines = << >> THEN (IF run = << >> THEN << >> ELSE << join(<< NL >>, run) >>)
    ELSE IF IsBlankText(Head(lines))
         THEN (IF run = << >> THEN << >> ELSE << join(<< NL >>, run) >>)
              \o RunsOf(Tail(lines), << >>)
         ELSE RunsOf(Tail(lines), Append(run, Head(lines)))

\* The reference paragraphs: split on blank lines, trimmed, empties dropped.
ReferenceParagraphs(t) ==
    LET runs == RunsOf(LinesOf(t), << >>)
    IN  SelectSeq([i \in 1..Len(runs) |-> strip(runs[i])], LAMBDA q : q # << >>)

\* The reference greedy procedure on the paragraphs left, page the
\* paragraphs of the page in progress: a paragraph joins the page if the page
\* is empty or the lengths of its paragraphs plus its own are within the
\* budget; otherwise the page is closed and a new one starts with it.
RECURSIVE GreedyPages(_, _, _)
GreedyPages(paras, page, B) ==
    IF paras = << >> THEN (IF page = << >> THEN << >> ELSE << join(<< NL >>, page) >>)
    ELSE IF page = << >> \/ SumLen(page) + Len(Head(paras)) <= B
         THEN GreedyPages(Tail(paras), Append(page, Head(paras)), B)
         ELSE << join(<< NL >>, page) >> \o GreedyPages(Tail(paras), << Head(paras) >>, B)

ReferencePages(t, B) == GreedyPages(ReferenceParagraphs(t), << >>, B)

\* C24 as stated: for every text and budget split_into_pages returns the
\* pages of the reference greedy procedure.
C24_EqualsGreedyReference ==
    called => result = ReferencePages(text, budget)

\* C24 amended: for every non-empty text and every budget split_into_pages
\* returns the pages of the reference greedy procedure, and for the empty
\* string it returns the placeholder page.
C24_EqualsGreedyReferenceOrPlaceholder ==
    called => IF text = << >> THEN result = << Placeholder >>
              ELSE result = ReferencePages(text, budget)

\* 'aa', blank line, 'bb' with budget 3 was split in two pages (2 + 2 > 3).
C24_Witness ==
    /\ called
    /\ text = << "a", "a", NL, NL, "b", "b" >>
    /\ budget = 3
    /\ result = << << "a", "a" >>, << "b", "b" >> >>

\* 'a', blank line, 'b' with budget 3 gave the single page 'a\nb'.
C24_OnePageExample ==
    called /\ text = << "a", NL, NL, "b" >> /\ budget = 3
        => result = << << "a", NL, "b" >> >>

\* ------------------------------------------------- claims on the main loop
\* The events of a sequence that process_events hands to the controller.
RECURSIVE HandedOf(_)
HandedOf(q) ==
    IF q = << >> THEN << >>
    ELSE (IF IsHanded(Head(q)) THEN << Head(q) >> ELSE << >>) \o HandedOf(Tail(q))

IsPrefix(p, q) == Len(p) <= Len(q) /\ SubSeq(q, 1, Len(p)) = p

\* The turn of process_events that takes the event e of button b.
Hands(type, b) ==
    /\ main.pc = "process"
    /\ main.batch # << >>
    /\ Head(main.batch).type = type
    /\ Head(main.batch).name = b
    /\ main'.batch = Tail(main.batch)

\* C15: a HOME press released after the long-press threshold makes the
\* controller handle Exit, so that the run flag is false afterwards; a HOME
\* press released before the threshold is handled as ShowHome and leaves the
\* run flag as it was.
C15_LongHomeExits ==
    [][ /\ Hands("BUTTON_LONG_PRESS", "HOME") => (ev'.type = "EXIT" /\ ~running')
        /\ Hands("BUTTON_CLICK", "HOME") => (ev'.type = "SHOW_HOME" /\ running' = running)
      ]_vars

\* C16: the clicks and long presses handed to the controller are the first of
\* those enqueued, in their order, each once; and whenever the main thread is
\* not inside a batch, every click and long press it has drained has been
\* handed, so that all that is enqueued is either handed or still queued.
C16_EveryEventHandedOnceInOrder ==
    /\ IsPrefix(log.handed, log.enqueued)
    /\ main.pc \in {"loop", "cleanup", "done"}
         => log.enqueued = log.handed \o HandedOf(gpio.event_queue)

\* The queue itself loses and reorders nothing: what is enqueued is what was
\* handed, then what is drained, then what is queued.
QueueConserves ==
    log.enqueued = log.handed \o HandedOf(main.batch) \o HandedOf(gpio.event_queue)

\* C14: once Exit is handled the run flag stays false, no further batch is
\* drained, and when the loop is over the drained batch has been processed
\* wholly and the teardown has run once.
C14_ExitFinishesBatchThenTearsDown ==
    /\ [][~running => ~running']_vars
    /\ [](~running => /\ main.pc # "drain"
                      /\ main.teardowns <= 1
                      /\ main.pc = "done" => (main.batch = << >> /\ main.teardowns = 1))
\* -------------------------------------------------- claims on load_config
\* config.json holds a JSON object.
ValidObject == config_file.kind = "json" /\ config_file.json.kind = "object"

\* C19: load_config raises nothing; of a config.json that is missing,
\* unreadable or not a JSON object it returns default_config; of a JSON
\* object it returns the object with every member it had, and with the
\* default of every recognised key it had not.
C19_LoadConfigFallsBackOrMerges ==
    loaded.kind = "returned" =>
        /\ loaded.error = None
        /\ loaded.value.kind = "object"
        /\ IF ValidObject
           THEN LET stored == config_file.json.map
                    map == loaded.value.map
                IN  /\ DOMAIN map = DOMAIN stored \cup KeySet
                    /\ \A k \in DOMAIN stored : map[k] = stored[k]
                    /\ \A k \in KeySet \ DOMAIN stored : map[k] = default_config[k]
           ELSE loaded.value.map = default_config

\* The same, of the files whose JSON text is not an array or a string that
\* holds all the recognised keys.
LoadConfigOfOtherFiles ==
    (config_file.kind = "json" /\ config_file.json.kind \in {"array", "string"}
        => \E k \in KeySet : not_in(k, config_file.json).value)
    => C19_LoadConfigFallsBackOrMerges
\* --------------------------------------------------- claims on the poller
\* The events of the sequence q that are about the button b.
EventsOf(q, b) == SelectSeq(q, LAMBDA e : e.name = b)

\* The sequence q of the events of one button is made of press-release
\* cycles, the last one possibly unfinished: BUTTON_DOWN, any number of
\* BUTTON_LONG_HOLD, BUTTON_UP, then BUTTON_CLICK, or BUTTON_LONG_PRESS, which
\* it must be after a BUTTON_LONG_HOLD. at is where in the cycle q starts:
\* "idle", "held", "held_long" or "released", "released_long".
RECURSIVE Cycles(_, _)
Cycles(q, at) ==
    IF q = << >> THEN TRUE
    ELSE LET type == Head(q).type
         IN  CASE at = "idle" -> type = "BUTTON_DOWN" /\ Cycles(Tail(q), "held")
               [] at = "held" ->
                     \/ type = "BUTTON_LONG_HOLD" /\ Cycles(Tail(q), "held_long")
                     \/ type = "BUTTON_UP" /\ Cycles(Tail(q), "released")
               [] at = "held_long" ->
                     \/ type = "BUTTON_LONG_HOLD" /\ Cycles(Tail(q), "held_long")
                     \/ type = "BUTTON_UP" /\ Cycles(Tail(q), "released_long")
               [] at = "released" ->
                     type \in {"BUTTON_CLICK", "BUTTON_LONG_PRESS"} /\ Cycles(Tail(q), "idle")
               [] at = "released_long" ->
                     type = "BUTTON_LONG_PRESS" /\ Cycles(Tail(q), "idle")
               [] OTHER -> FALSE

\* The step is a poll of the buttons.
Polls ==
    /\ gpio.running /\ gpio.pending = << >>
    /\ gpio' = monitor_buttons(gpio, pins.down)
    /\ gpio' # gpio

\* The poll sees the button b go down, or go up.
SeesPress(b) == Polls /\ gpio.seen # b /\ pins.down = b

SeesRelease(b) == Polls /\ gpio.seen = b /\ pins.down # b

\* C29: for every press-release cycle the poller sees, it appends BUTTON_DOWN
\* at the press and, at the release, BUTTON_UP followed by exactly one of
\* BUTTON_CLICK (held for less than the threshold) and BUTTON_LONG_PRESS (held
\* for the threshold or longer); it appends BUTTON_CLICK and
\* BUTTON_LONG_PRESS at no other moment, so that a button held past the
\* threshold gives one BUTTON_LONG_PRESS, at its release.
C29_OneClickOrLongPressPerCycle ==
    /\ [](\A b \in Buttons : Cycles(EventsOf(log.appended \o gpio.pending, b), "idle"))
    /\ [][ \A b \in Buttons :
             LET appended == EventsOf(gpio'.pending, b)
                 types == [i \in DOMAIN appended |-> appended[i].type]
             IN  /\ SeesPress(b) => types = << "BUTTON_DOWN" >>
                 /\ SeesRelease(b) =>
                       types = << "BUTTON_UP",
                                  IF gpio.held + 1 < LongPressPolls
                                  THEN "BUTTON_CLICK" ELSE "BUTTON_LONG_PRESS" >>
           ]_vars

\* HOME was held past the threshold and released: after its BUTTON_DOWN and a
\* BUTTON_LONG_HOLD came BUTTON_UP and one BUTTON_LONG_PRESS; and a button was
\* clicked.
C29_Witness ==
    /\ gpio.pending = << >>
    /\ LET q == EventsOf(log.appended, "HOME")
       IN  /\ Len(q) = 4
           /\ [i \in 1..4 |-> q[i].type]
                 = << "BUTTON_DOWN", "BUTTON_LONG_HOLD", "BUTTON_UP", "BUTTON_LONG_PRESS" >>
    /\ \E i \in DOMAIN log.appended : log.appended[i].type = "BUTTON_CLICK"

\* ------------------------------------------------- claims on the text box
\* The wrapped lines of the box and the most lines it can hold.
Wrapped == wrap(box.text, box.width)
MaxLines == box.height \div box.line_height

\* What the claim says is drawn: all wrapped lines when they fit, otherwise
\* the first MaxLines of them, the last one with its final three characters
\* replaced by the ellipsis.
Expected ==
    IF Len(Wrapped) <= MaxLines THEN Wrapped
    ELSE IF MaxLines = 0 THEN << >>
    ELSE Append(SubSeq(Wrapped, 1, MaxLines - 1),
                DropLast3(Wrapped[MaxLines]) \o Ellipsis)

\* C30: for every text and box with line_height >= 1, draw_text_box returns,
\* and it draws and returns at most floor(height / line_height) lines: all
\* wrapped lines, unchanged, when they are no more than that maximum, and
\* otherwise exactly the first maximum lines, the last of them with its final
\* 3 characters dropped and replaced by "..."; the count returned is the
\* number of lines drawn.
C30_DrawsAtMostMaxLines ==
    drawn.kind # "none" =>
        /\ drawn.kind = "returned"
        /\ drawn.count <= MaxLines
        /\ drawn.count = Len(drawn.lines)
        /\ drawn.lines = Expected

\* In a box that holds at least one line the call returns what C30 says.
DrawsAtMostMaxLinesWhenOneFits ==
    (drawn.kind # "none" /\ MaxLines >= 1) =>
        /\ drawn.kind = "returned"
        /\ drawn.count <= MaxLines
        /\ drawn.count = Len(drawn.lines)
        /\ drawn.lines = Expected


\* The words of a string: the non-empty pieces between its blanks.
WordsOf(t) == SelectSeq(split_blank(t), LAMBDA w : w # << >>)

\* The words of the lines, line after line.
RECURSIVE WordsOfLines(_)
WordsOfLines(lines) ==
    IF lines = << >> THEN << >>
    ELSE WordsOf(Head(lines)) \o WordsOfLines(Tail(lines))

\* The lines are a greedy wrapping of the text t to the width: they hold the
\* words of t whole, in order, with single blanks between them; a line break
\* comes only where the next word would not have fitted; a line of two or
\* more words fits the width.
GreedyWrapping(lines, t, width) ==
    /\ WordsOfLines(lines) = WordsOf(t)
    /\ \A i \in DOMAIN lines :
          /\ lines[i] = join(<< SP >>, WordsOf(lines[i]))
          /\ Len(WordsOf(lines[i])) >= 2 => text_width(lines[i]) <= width
          /\ i > 1 => text_width(lines[i - 1] \o << SP >> \o WordsOf(lines[i])[1]) > width

HasNewline(t) == \E i \in DOMAIN t : t[i] = NL

\* C31: word wrapping in draw_text_box is greedy and never splits a word:
\* every word of the text appears whole in exactly one line, in the original
\* order, separated by single spaces; a word starts a new line only when
\* appending it to the non-empty current line would exceed the box width; so
\* every line of two or more words fits the width and a word wider than the
\* box stands alone on its line. Stated on the lines drawn when the wrapped
\* lines all fit the box.
C31_WrappingIsGreedy ==
    (drawn.kind = "returned" /\ Len(Wrapped) <= MaxLines) =>
        GreedyWrapping(drawn.lines, box.text, box.width)

\* The wrapping of a text without newlines is greedy.
WrappingIsGreedyWithoutNewlines ==
    (drawn.kind = "returned" /\ Len(Wrapped) <= MaxLines /\ ~HasNewline(box.text)) =>
        GreedyWrapping(drawn.lines, box.text, box.width)


\* C34: draw_text_box on a box lower than one line (no line fits) with a
\* non-empty text returns without raising, and draws and returns zero lines.
C34_BoxLowerThanALineDrawsNothing ==
    (drawn.kind # "none" /\ box.height < box.line_height /\ box.text # << >>) =>
        /\ drawn.kind = "returned"
        /\ drawn.lines = << >>
        /\ drawn.count = 0

\* It does so when the text wraps to no line at all (blanks and newlines).
BoxLowerThanALineDrawsNothingOfBlanks ==
    (drawn.kind # "none" /\ box.height < box.line_height /\ Wrapped = << >>) =>
        /\ drawn.kind = "returned"
        /\ drawn.lines = << >>
        /\ drawn.count = 0

\* And it raises whenever the text wraps to a line.
BoxLowerThanALineRaises ==
    (drawn.kind # "none" /\ box.height < box.line_height /\ Wrapped # << >>) =>
        drawn.kind = "raised" /\ drawn.error = "IndexError"

\* ---------------------------------------------------- claims on startup
\* The step is one in which the controller's load_book(path) ran and the
\* BookManager's load succeeded: the load of the last-read book in
\* initialize(), a LOAD_BOOK command, or Select on a listed book of Home.
ControllerLoads(path) ==
    /\ path # None
    /\ load_book(bm, path, sidecar[path]).ok
    /\ \/ ev'.via = "startup" /\ path = disk.current_book
       \/ ev'.via = "event" /\ ev'.type = "LOAD_BOOK" /\ ev'.data = PathData(path)
       \/ ev'.via = "event" /\ ev'.type = "SELECT" /\ ev'.screen = "home"
             /\ path = SelectedBook(home)

\* C32: every successful load of a book through the controller leaves the
\* book's current_page and config['current_page'] at 0, the config naming the
\* book, and the config saved; so does the load of the last-read book at
\* startup, whatever page the config file held.
C32_LoadStartsAtPageZero ==
    [][ \A path \in Paths :
          ControllerLoads(path) =>
              /\ bm'.current_book_path = path
              /\ bm'.current_page = 0
              /\ config'.current_book = path
              /\ config'.current_page = 0
              /\ disk' = config'
              /\ tr'.saves >= 1 ]_vars

\* The session started from a config file holding a_txt at page 2: the book
\* is loaded, Reading is active, and the book and the file are at page 0.
C32_Witness ==
    /\ ev.via = "startup"
    /\ ev.data = IntData(2)
    /\ current_screen = "reading"
    /\ bm.current_book_path = "a_txt"
    /\ bm.total_pages > 2
    /\ bm.current_page = 0
    /\ disk = [current_book |-> "a_txt", current_page |-> 0]


\* ------------------------------------------------ claims on the display
\* The real panel cannot be used: its driver was not imported, or its
\* initialisation fails.
RealPanelUnavailable ==
    \/ ~driver.has_real_driver
    \/ ~driver.epd_init_ok
    \/ driver.screen_type \notin {"7in5", "7in5_V2"}

\* C36: when the real panel driver is unavailable, or its initialisation
\* fails, init_display falls back to MockEPD without raising: constructing
\* EinkDisplay succeeds with the mock panel, and EinkReader.initialize()
\* returns True.
C36_FallsBackToMockPanel ==
    (boot.kind # "none" /\ RealPanelUnavailable) =>
        /\ boot.error = None
        /\ boot.ok
        /\ boot.epd = "MockEPD"

\* On every machine, constructing EinkDisplay raises UnboundLocalError and
\* initialize() returns False, leaving the controller as __init__ left it.
DisplayNeverConstructed ==
    boot.kind # "none" =>
        /\ boot.error = "UnboundLocalError"
        /\ ~boot.ok
        /\ boot.epd = None
        /\ current_screen = None
        /\ bm = NewBookManager
        /\ config = disk

====
